---- MODULE Spec2Model ----
(***************************************************************************)
(* Model of the Sneller result decoder of the Grafana data source backend  *)
(* (pkg/plugin/query.go, pkg/plugin/reader.go).                            *)
(*                                                                         *)
(* A query result is a stream of top-level ION values: data rows (structs  *)
(* without annotation) and annotated status envelopes.  The decoder makes  *)
(* two passes over the buffered stream: deriveSchema (pass 1) and          *)
(* readRowValues (pass 2), and then assembles a frame.                     *)
(*                                                                         *)
(* Values are modelled after decoding: a value is [typ, num, str] with the *)
(* ION type tag, its number (floats in tenths) and its text.               *)
(*                                                                         *)
(* Further machines share the module.  SpecReader drives an IonReader      *)
(* (Next, StepIn, StepOut, typed reads) with arbitrary calls over a token  *)
(* encoding of whole, truncated and malformed inputs.  SpecHandler is      *)
(* handleQuery (pkg/plugin/types.go): one goroutine per query, a mutex     *)
(* around the response map and a WaitGroup.  SpecColumn applies the        *)
(* mapping table of grafanaFieldValues to every column descriptor, and     *)
(* SpecMacro is the macro engine of d.query, one engine per query.         *)
(* SpecIterate is iterateRows on the token-level reader, and SpecFields is *)
(* grafanaFields: one goroutine per column, a sized wait group and a       *)
(* buffered channel.                                                       *)
(***************************************************************************)
EXTENDS Integers, Sequences, FiniteSets, TLC

VARIABLES
    buf,        \* the buffered query result: sequence of top-level values
    timeField,  \* the time field name handed to frameFromSnellerResult
    pc,         \* position of frameFromSnellerResult
    pos,        \* number of top-level values the current IonReader has consumed
    index,      \* iterateRows: the row index
    status,     \* iterateRows: the status pointer (set = FALSE is nil)
    schema,     \* deriveSchema: the snellerSchema
    lookup,     \* deriveSchema: name -> position of its column in schema.Columns
    fieldVals,  \* frameFromSnellerResult: the []*fieldValues
    passErr,    \* the error returned by the second iterateRows
    result,     \* what frameFromSnellerResult returned
    run,        \* which decode of the buffer this is (1 or 2)
    prev,       \* schema and result of the previous decode
    queries,    \* handleQuery: req.Queries, the RefID of each query
    hpc,        \* handleQuery: position of the handler
    spawned,    \* handleQuery: number of goroutines started by the loop
    wg,         \* handleQuery: the counter of the sync.WaitGroup
    mutex,      \* handleQuery: the goroutine that holds the sync.Mutex, 0 if none
    gpc,        \* handleQuery: position of each goroutine
    gresp,      \* handleQuery: resp of each goroutine
    responses,  \* handleQuery: response.Responses, RefID -> DataResponse
    peak,       \* the largest number of goroutines that ran d.query at once
    macros,     \* d.query: per query, the macro engine and what it interpolated
    bytes,      \* IonReader: the input, a sequence of tokens
    ctx,        \* IonReader: r.ctx
    stack,      \* IonReader: r.stack
    rbuf,       \* IonReader: r.buf, the window of the last Peek
    last,       \* the last call made on the IonReader and what it returned
    after,      \* per entered container, the position that follows it
    symbols,    \* IonReader: r.Symbols, the symbol tables applied in order
    yielded,    \* the number of top-level values Next has moved to
    steps,      \* the StepIn and StepOut calls that returned nil, and the
                \* context each container on the stack was entered from
    iter,       \* iterateRows: its position, index and status pointer, the
                \* error it returned and the calls of readRowFn it has made
    conv        \* grafanaFields: its position, the sized wait group, the
                \* goroutines, the channel and the result slice

framevars == <<buf, timeField, pc, pos, index, status, schema, lookup, fieldVals,
               passErr, result, run, prev>>

handlervars == <<queries, hpc, spawned, wg, mutex, gpc, gresp, responses, peak, macros,
                 conv>>

readervars == <<bytes, ctx, stack, rbuf, last, after, symbols, yielded, steps, iter>>

vars == <<framevars, handlervars, readervars>>

----------------------------------------------------------------------------
(* Bounds of the model *)

MaxRows == 3

Names == {"x", "y"}

TimeFields == {"", "x"}

TimeText == "1970-01-01T00:00:01Z"

BadText == "yesterday"

----------------------------------------------------------------------------
(* Values *)

Val(t, n, s) == [typ |-> t, num |-> n, str |-> s]

\* the values of field x, and the fewer values of field y
CellsX ==
    { Val("null", 0, ""), Val("uint", 1, ""), Val("uint", 2, ""),
      Val("int", -1, ""), Val("float", 15, ""),
      Val("string", 0, TimeText), Val("string", 0, BadText) }

CellsY == { Val("uint", 2, "") }

Field(n, c) == [name |-> n, typ |-> c.typ, num |-> c.num, str |-> c.str]

Fields == { Field("x", c) : c \in CellsX } \cup { Field("y", c) : c \in CellsY }

NoErr == [kind |-> "", msg |-> ""]

Err(k, m) == [kind |-> k, msg |-> m]

----------------------------------------------------------------------------
(* Schema deriver: query.go, snellerType, analyzeRow, deriveSchema *)

snellerType(typ) ==
    CASE typ = "null"      -> "snellerTypeNull"
      [] typ = "bool"      -> "snellerTypeBool"
      [] typ = "uint"      -> "snellerTypeNumber"
      [] typ = "int"       -> "snellerTypeNumber"
      [] typ = "float"     -> "snellerTypeNumber"
      [] typ = "timestamp" -> "snellerTypeTimestamp"
      [] typ = "symbol"    -> "snellerTypeString"
      [] typ = "string"    -> "snellerTypeString"
      [] typ = "struct"    -> "snellerTypeStruct"
      [] typ = "list"      -> "snellerTypeList"
      [] OTHER             -> "snellerTypeUnknown"

\* the snellerColumn literal of analyzeRow: the descriptor of a field name
\* at its first sighting, at position index of a row, when schema.RowCount
\* rows have been started
newColumn(idx, name, ionType, rowCount) ==
    [ Index    |-> idx,
      Name     |-> name,
      Typ      |-> snellerType(ionType),
      Nullable |-> snellerType(ionType) = "snellerTypeNull",
      Optional |-> rowCount # 1,
      Floating |-> FALSE,
      Signed   |-> ionType = "int" \/ ionType = "float",
      Count    |-> 0 ]

\* adjustType without its second branch: a column whose type is still null
\* is handled like a column of another type
adjustTypeNullNotReplaced(col, st) ==
    IF st # col.Typ
    THEN IF st = "snellerTypeNull"
         THEN [col EXCEPT !.Nullable = TRUE]
         ELSE [col EXCEPT !.Typ = "snellerTypeUnknown"]
    ELSE col

\* adjustType without its last branch: the first non-null type stays
adjustTypeFirstWins(col, st) ==
    IF st # col.Typ
    THEN IF st = "snellerTypeNull"
         THEN [col EXCEPT !.Nullable = TRUE]
         ELSE IF col.Typ = "snellerTypeNull"
              THEN [col EXCEPT !.Typ = st]
              ELSE col
    ELSE col

\* adjustType with a conflict that the next type replaces
adjustTypeLeavesConflict(col, st) ==
    IF st # col.Typ
    THEN IF st = "snellerTypeNull"
         THEN [col EXCEPT !.Nullable = TRUE]
         ELSE IF col.Typ \in {"snellerTypeNull", "snellerTypeUnknown"}
              THEN [col EXCEPT !.Typ = st]
              ELSE [col EXCEPT !.Typ = "snellerTypeUnknown"]
    ELSE col

\* "Adjust column type if required"
adjustType(col, st) ==
    IF st # col.Typ
    THEN IF st = "snellerTypeNull"
         THEN [col EXCEPT !.Nullable = TRUE]
         ELSE IF col.Typ = "snellerTypeNull"
              THEN [col EXCEPT !.Typ = st]
              ELSE [col EXCEPT !.Typ = "snellerTypeUnknown"]
    ELSE col

\* the flags of numeric fields assigned from the current value alone
numericFlagsAssigned(col, ionType) ==
    IF snellerType(ionType) = "snellerTypeNumber"
    THEN [col EXCEPT !.Floating = ionType = "float",
                     !.Signed = ionType \in {"int", "float"}]
    ELSE col

\* "Additional meta info for numeric fields"
numericFlags(col, ionType) ==
    IF snellerType(ionType) = "snellerTypeNumber"
    THEN IF ionType = "float"
         THEN [col EXCEPT !.Floating = TRUE, !.Signed = TRUE]
         ELSE IF ionType = "int"
              THEN [col EXCEPT !.Signed = TRUE]
              ELSE col
    ELSE col

\* the index check and the count of one field occurrence
countField(col, idx) ==
    [col EXCEPT !.Index = IF idx # col.Index THEN -1 ELSE @,
                !.Count = @ + 1]

\* one iteration of the loop of analyzeRow without the lookup: every field
\* occurrence gets a descriptor of its own
analyzeFieldNoLookup(f, idx, sc, lk) ==
    LET cols1 == Append(sc.Columns, newColumn(idx, f.name, f.typ, sc.RowCount))
        lk1   == IF f.name \in DOMAIN lk
                 THEN [lk EXCEPT ![f.name] = Len(cols1)]
                 ELSE lk @@ (f.name :> Len(cols1))
        i     == lk1[f.name]
        col   == numericFlags(
                     adjustType(countField(cols1[i], idx), snellerType(f.typ)),
                     f.typ)
    IN  [ schema |-> [sc EXCEPT !.Columns = [cols1 EXCEPT ![i] = col]],
          lookup |-> lk1 ]

\* one iteration of the loop of analyzeRow, for field f at position idx
analyzeField(f, idx, sc, lk) ==
    LET isNew == f.name \notin DOMAIN lk
        cols1 == IF isNew
                 THEN Append(sc.Columns, newColumn(idx, f.name, f.typ, sc.RowCount))
                 ELSE sc.Columns
        lk1   == IF isNew THEN lk @@ (f.name :> Len(cols1)) ELSE lk
        i     == lk1[f.name]
        col   == numericFlags(
                     adjustType(countField(cols1[i], idx), snellerType(f.typ)),
                     f.typ)
    IN  [ schema |-> [sc EXCEPT !.Columns = [cols1 EXCEPT ![i] = col]],
          lookup |-> lk1 ]

RECURSIVE analyzeRowFrom(_, _, _, _)
analyzeRowFrom(fields, idx, sc, lk) ==
    IF idx = Len(fields)
    THEN [schema |-> sc, lookup |-> lk]
    ELSE LET r == analyzeField(fields[idx + 1], idx, sc, lk)
         IN  analyzeRowFrom(fields, idx + 1, r.schema, r.lookup)

analyzeRow(fields, sc, lk) == analyzeRowFrom(fields, 0, sc, lk)

\* "Detect missing values"
detectMissing(col, rowCount) ==
    IF col.Count # rowCount THEN [col EXCEPT !.Optional = TRUE] ELSE col

\* the callback of UnpackStruct: the first column named label gets index k
setIndex(cols, label, k) ==
    IF \E i \in DOMAIN cols : cols[i].Name = label
    THEN LET i == CHOOSE j \in DOMAIN cols :
                      /\ cols[j].Name = label
                      /\ \A h \in 1..(j - 1) : cols[h].Name # label
         IN  [cols EXCEPT ![i].Index = k]
    ELSE cols

RECURSIVE restoreIndex(_, _, _)
restoreIndex(cols, resultSet, k) ==
    IF k = Len(resultSet)
    THEN cols
    ELSE restoreIndex(setIndex(cols, resultSet[k + 1], k), resultSet, k + 1)

\* a comparison by the position in the slice: nothing is less than what
\* stands before it
lessIndexNever(a, b) == FALSE

\* the comparison handed to slices.SortFunc
lessIndex(a, b) == a.Index < b.Index

\* slices.SortFunc on fewer than 12 elements is an insertion sort: each
\* element moves left while it is less than its left neighbour
RECURSIVE insertSorted(_, _)
insertSorted(sorted, c) ==
    IF sorted = <<>>
    THEN <<c>>
    ELSE IF lessIndex(c, sorted[Len(sorted)])
         THEN Append(insertSorted(SubSeq(sorted, 1, Len(sorted) - 1), c),
                     sorted[Len(sorted)])
         ELSE Append(sorted, c)

RECURSIVE sortFrom(_, _, _)
sortFrom(cols, sorted, i) ==
    IF i > Len(cols)
    THEN sorted
    ELSE sortFrom(cols, insertSorted(sorted, cols[i]), i + 1)

SortFunc(cols) == sortFrom(cols, <<>>, 1)

\* deriveSchema that returns the columns newest first when the status carries
\* no field list
deriveSchemaFinishNewestFirst(sc, st) ==
    LET marked == [i \in DOMAIN sc.Columns |->
                       detectMissing(sc.Columns[i], sc.RowCount)]
    IN  [ RowCount    |-> sc.RowCount,
          Columns     |-> IF st.rs_present
                          THEN SortFunc(restoreIndex(marked, st.result_set, 0))
                          ELSE [i \in DOMAIN marked |->
                                    marked[Len(marked) + 1 - i]],
          FinalStatus |-> st ]

\* deriveSchema after iterateRows has returned status st without error
deriveSchemaFinish(sc, st) ==
    LET marked == [i \in DOMAIN sc.Columns |->
                       detectMissing(sc.Columns[i], sc.RowCount)]
    IN  [ RowCount    |-> sc.RowCount,
          Columns     |-> IF st.rs_present
                          THEN SortFunc(restoreIndex(marked, st.result_set, 0))
                          ELSE marked,
          FinalStatus |-> st ]

----------------------------------------------------------------------------
(* Field materializer: query.go, grafanaType, grafanaFieldValues, read*;   *)
(* reader.go, Read*                                                         *)

\* NullableType that returns the type it is given
NullableTypeSame(t) == t

NullableType(t) ==
    CASE t = "FieldTypeJSON"    -> "FieldTypeNullableJSON"
      [] t = "FieldTypeBool"    -> "FieldTypeNullableBool"
      [] t = "FieldTypeUint64"  -> "FieldTypeNullableUint64"
      [] t = "FieldTypeInt64"   -> "FieldTypeNullableInt64"
      [] t = "FieldTypeFloat64" -> "FieldTypeNullableFloat64"
      [] t = "FieldTypeTime"    -> "FieldTypeNullableTime"
      [] t = "FieldTypeString"  -> "FieldTypeNullableString"
      [] OTHER                  -> t

grafanaType(column) ==
    LET t == CASE column.Typ = "snellerTypeUnknown"   -> "FieldTypeJSON"
               [] column.Typ = "snellerTypeNull"      -> "FieldTypeJSON"
               [] column.Typ = "snellerTypeBool"      -> "FieldTypeBool"
               [] column.Typ = "snellerTypeNumber"    ->
                      IF column.Floating
                      THEN "FieldTypeFloat64"
                      ELSE IF column.Signed
                           THEN "FieldTypeInt64"
                           ELSE "FieldTypeUint64"
               [] column.Typ = "snellerTypeTimestamp" -> "FieldTypeTime"
               [] column.Typ = "snellerTypeString"    -> "FieldTypeString"
               [] column.Typ = "snellerTypeStruct"    -> "FieldTypeJSON"
               [] column.Typ = "snellerTypeList"      -> "FieldTypeJSON"
               [] OTHER                               -> "FieldTypeUnknown"
    IN  IF t # "FieldTypeUnknown" /\ (column.Nullable \/ column.Optional)
        THEN NullableType(t)
        ELSE t

\* an element of a column's value array
Out(k, n, s) == [k |-> k, num |-> n, str |-> s]

Nil == Out("nil", 0, "")

Read(e, v) == [err |-> e, val |-> v]

TypeMismatch == Err("type", "expected other type")

\* IonReader.checkType followed by the decode of the value
ReadBool(c) ==
    IF c.typ # "bool" THEN Read(TypeMismatch, Nil) ELSE Read(NoErr, Out("bool", c.num, ""))

ReadUint(c) ==
    IF c.typ # "uint" THEN Read(TypeMismatch, Nil) ELSE Read(NoErr, Out("uint", c.num, ""))

ReadInt(c) ==
    IF c.typ # "int" THEN Read(TypeMismatch, Nil) ELSE Read(NoErr, Out("int", c.num, ""))

ReadFloat(c) ==
    IF c.typ # "float" THEN Read(TypeMismatch, Nil) ELSE Read(NoErr, Out("float", c.num, ""))

ReadString(c) ==
    IF c.typ # "string" THEN Read(TypeMismatch, Nil) ELSE Read(NoErr, Out("string", 0, c.str))

ReadSymbol(c) ==
    IF c.typ # "symbol" THEN Read(TypeMismatch, Nil) ELSE Read(NoErr, Out("string", 0, c.str))

ReadTimestamp(c) ==
    IF c.typ # "timestamp" THEN Read(TypeMismatch, Nil) ELSE Read(NoErr, Out("time", c.num, ""))

\* ReadNumber without its unsigned and signed cases
ReadNumberFloatOnly(c) == ReadFloat(c)

\* float64(temp): floats are held in tenths
ReadNumber(c) ==
    CASE c.typ = "uint"  -> Read(NoErr, Out("float", 10 * c.num, ""))
      [] c.typ = "int"   -> Read(NoErr, Out("float", 10 * c.num, ""))
      [] c.typ = "float" -> ReadFloat(c)
      [] OTHER           -> Read(Err("type", "expected numeric type"), Nil)

ReadText(c) ==
    CASE c.typ = "symbol" -> ReadSymbol(c)
      [] c.typ = "string" -> ReadString(c)
      [] OTHER            -> Read(Err("type", "expected text type"), Nil)

\* ReadValue followed by json.Marshal
ReadValue(c) ==
    IF c.typ \in {"null", "bool", "uint", "int", "float", "timestamp", "symbol",
                  "string", "blob", "list", "struct"}
    THEN Read(NoErr, Out("json", c.num, IF c.typ \in {"symbol", "string"}
                                         THEN c.str ELSE c.typ))
    ELSE Read(Err("type", "unsupported ION type"), Nil)

\* time.Parse(time.RFC3339, value), in milliseconds since the epoch
ParseRFC3339(value) ==
    IF value = TimeText
    THEN Read(NoErr, Out("time", 1000, ""))
    ELSE Read(Err("parse", value), Nil)

\* ReadNullableX: nil when the tag is null, else the non-nullable read
Nullable(c, r) == IF c.typ = "null" THEN Read(NoErr, Nil) ELSE r

readTimeFromInt64(c) ==
    LET r == ReadInt(c)
    IN  IF r.err # NoErr THEN r ELSE Read(NoErr, Out("time", r.val.num, ""))

readTimeFromString(c) ==
    LET r == ReadString(c)
    IN  IF r.err # NoErr THEN r ELSE ParseRFC3339(r.val.str)

\* readJSON drops the error of readJSONNullable and dereferences its result
readJSON(c) ==
    LET r == ReadValue(c)
    IN  IF r.err # NoErr THEN Read(Err("panic", "nil dereference"), Nil) ELSE r

\* the function fn bound to a column, applied to the current value c
ReadFn(fn, c) ==
    CASE fn = "readJSON"                   -> readJSON(c)
      [] fn = "readJSONNullable"           -> ReadValue(c)
      [] fn = "readBool"                   -> ReadBool(c)
      [] fn = "readBoolNullable"           -> Nullable(c, ReadBool(c))
      [] fn = "readUint64"                 -> ReadUint(c)
      [] fn = "readUint64Nullable"         -> Nullable(c, ReadUint(c))
      [] fn = "readInt64"                  -> ReadInt(c)
      [] fn = "readInt64Nullable"          -> Nullable(c, ReadInt(c))
      [] fn = "readFloat64"                -> ReadNumber(c)
      [] fn = "readFloat64Nullable"        -> Nullable(c, ReadNumber(c))
      [] fn = "readTime"                   -> ReadTimestamp(c)
      [] fn = "readTimeNullable"           -> Nullable(c, ReadTimestamp(c))
      [] fn = "readString"                 -> ReadText(c)
      [] fn = "readStringNullable"         -> Nullable(c, ReadText(c))
      [] fn = "readTimeFromInt64"          -> readTimeFromInt64(c)
      [] fn = "readTimeFromInt64Nullable"  -> Nullable(c, readTimeFromInt64(c))
      [] fn = "readTimeFromString"         -> readTimeFromString(c)
      [] fn = "readTimeFromStringNullable" -> Nullable(c, readTimeFromString(c))

\* the zero value of the element type T of newFieldValues[T]
ZeroValue(fn) ==
    CASE fn \in {"readJSONNullable", "readBoolNullable", "readUint64Nullable",
                 "readInt64Nullable", "readFloat64Nullable", "readTimeNullable",
                 "readStringNullable", "readTimeFromInt64Nullable",
                 "readTimeFromStringNullable"}  -> Nil
      [] fn = "readJSON"                        -> Out("json", 0, "")
      [] fn = "readBool"                        -> Out("bool", 0, "")
      [] fn = "readUint64"                      -> Out("uint", 0, "")
      [] fn = "readInt64"                       -> Out("int", 0, "")
      [] fn = "readFloat64"                     -> Out("float", 0, "")
      [] fn = "readString"                      -> Out("string", 0, "")
      [] fn \in {"readTime", "readTimeFromInt64", "readTimeFromString"}
                                                -> Out("time", 0, "zero")

newFieldValues(name, rowCount, fn) ==
    [ Name |-> name, Values |-> [i \in 1..rowCount |-> ZeroValue(fn)], ReadFn |-> fn ]

NoField == [Name |-> "", Values |-> <<>>, ReadFn |-> ""]

Mapped(name, rowCount, fn) == [err |-> NoErr, fv |-> newFieldValues(name, rowCount, fn)]

Unsupported(kind, typ) == [err |-> Err(kind, typ), fv |-> NoField]

grafanaFieldValues(name, rowCount, column, isTimeField) ==
    LET typ == grafanaType(column)
    IN  IF isTimeField
        THEN CASE typ \in {"FieldTypeUint64", "FieldTypeInt64"}
                      -> Mapped(name, rowCount, "readTimeFromInt64")
               [] typ = "FieldTypeNullableInt64"
                      -> Mapped(name, rowCount, "readTimeFromInt64Nullable")
               [] typ = "FieldTypeString"
                      -> Mapped(name, rowCount, "readTimeFromString")
               [] typ = "FieldTypeNullableString"
                      -> Mapped(name, rowCount, "readTimeFromStringNullable")
               [] OTHER
                      -> Unsupported("unsupported field type for time field", typ)
        ELSE CASE typ = "FieldTypeJSON"            -> Mapped(name, rowCount, "readJSON")
               [] typ = "FieldTypeNullableJSON"    -> Mapped(name, rowCount, "readJSONNullable")
               [] typ = "FieldTypeBool"            -> Mapped(name, rowCount, "readBool")
               [] typ = "FieldTypeNullableBool"    -> Mapped(name, rowCount, "readBoolNullable")
               [] typ = "FieldTypeUint64"          -> Mapped(name, rowCount, "readUint64")
               [] typ = "FieldTypeNullableUint64"  -> Mapped(name, rowCount, "readUint64Nullable")
               [] typ = "FieldTypeInt64"           -> Mapped(name, rowCount, "readInt64")
               [] typ = "FieldTypeNullableInt64"   -> Mapped(name, rowCount, "readInt64Nullable")
               [] typ = "FieldTypeFloat64"         -> Mapped(name, rowCount, "readFloat64")
               [] typ = "FieldTypeNullableFloat64" -> Mapped(name, rowCount, "readFloat64Nullable")
               [] typ = "FieldTypeTime"            -> Mapped(name, rowCount, "readTime")
               [] typ = "FieldTypeNullableTime"    -> Mapped(name, rowCount, "readTimeNullable")
               [] typ = "FieldTypeString"          -> Mapped(name, rowCount, "readString")
               [] typ = "FieldTypeNullableString"  -> Mapped(name, rowCount, "readStringNullable")
               [] OTHER                            -> Unsupported("unsupported field type", typ)

\* the isTimeField expression of frameFromSnellerResult
isTimeField(column, tf) ==
    /\ column.Name = tf
    /\ \/ column.Typ = "snellerTypeString"
       \/ column.Typ = "snellerTypeNumber" /\ ~column.Floating

\* the "Step 2" loop of frameFromSnellerResult over schema.Columns from
\* column i on: the first error ends it
RECURSIVE allocFrom(_, _, _, _)
allocFrom(sc, tf, i, fvs) ==
    IF i > Len(sc.Columns)
    THEN [err |-> NoErr, fvs |-> fvs]
    ELSE LET column == sc.Columns[i]
             r == grafanaFieldValues(column.Name, sc.RowCount, column,
                                     isTimeField(column, tf))
         IN  IF r.err # NoErr
             THEN [err |-> r.err, fvs |-> <<>>]
             ELSE allocFrom(sc, tf, i + 1, Append(fvs, r.fv))

\* the inner loop of readRowValues without the comparison of the names: the
\* field is read into every column
RECURSIVE readFieldEveryColumn(_, _, _, _)
readFieldEveryColumn(f, rowIndex, fvs, j) ==
    IF j > Len(fvs)
    THEN [err |-> NoErr, fvs |-> fvs]
    ELSE LET r == ReadFn(fvs[j].ReadFn, f)
         IN  IF r.err # NoErr
             THEN [err |-> r.err, fvs |-> fvs]
             ELSE readFieldEveryColumn(f, rowIndex,
                                       [fvs EXCEPT ![j].Values[rowIndex + 1] = r.val],
                                       j + 1)

\* the inner loop of readRowValues: field f of row rowIndex is offered to
\* every column from column j on
RECURSIVE readField(_, _, _, _)
readField(f, rowIndex, fvs, j) ==
    IF j > Len(fvs)
    THEN [err |-> NoErr, fvs |-> fvs]
    ELSE IF f.name # fvs[j].Name
         THEN readField(f, rowIndex, fvs, j + 1)
         ELSE LET r == ReadFn(fvs[j].ReadFn, f)
              IN  IF r.err # NoErr
                  THEN [err |-> r.err, fvs |-> fvs]
                  ELSE readField(f, rowIndex,
                                 [fvs EXCEPT ![j].Values[rowIndex + 1] = r.val],
                                 j + 1)

RECURSIVE readRowFrom(_, _, _, _)
readRowFrom(fields, k, rowIndex, fvs) ==
    IF k > Len(fields)
    THEN [err |-> NoErr, fvs |-> fvs]
    ELSE LET r == readField(fields[k], rowIndex, fvs, 1)
         IN  IF r.err # NoErr
             THEN r
             ELSE readRowFrom(fields, k + 1, rowIndex, r.fvs)

readRowValues(fields, rowIndex, fvs) == readRowFrom(fields, 1, rowIndex, fvs)

----------------------------------------------------------------------------
(* The stream *)

Item(annot, fields, h, m, sc, e, rsp, rs) ==
    [ typ |-> "struct", annot |-> annot, fields |-> fields,
      hits |-> h, misses |-> m, scanned |-> sc, error |-> e,
      rs_present |-> rsp, result_set |-> rs ]

Row(fields) == Item("", fields, 0, 0, 0, "", FALSE, <<>>)

FinalStatus(e, rsp, rs) == Item("final_status", <<>>, 10, 0, 1024, e, rsp, rs)

QueryError(e) == Item("query_error", <<>>, 0, 0, 0, e, FALSE, <<>>)

\* the rows of two fields: two columns in either order, and one field name
\* twice
PairRows ==
    LET x1 == Field("x", Val("uint", 1, ""))
        y2 == Field("y", Val("uint", 2, ""))
    IN  { <<x1, y2>>, <<y2, x1>>, <<x1, x1>> }

Rows ==
    {<<>>} \cup { <<f>> : f \in Fields } \cup PairRows

RowSeqs == UNION { [1..n -> {Row(r) : r \in Rows}] : n \in 0..MaxRows }

Tails ==
    { <<>>,
      <<FinalStatus("", FALSE, <<>>)>>,
      <<FinalStatus("", TRUE, <<"y", "x">>)>>,
      <<FinalStatus("", TRUE, <<"y">>)>>,
      <<FinalStatus("table not found", FALSE, <<>>)>>,
      <<QueryError("syntax error")>>,
      <<FinalStatus("", FALSE, <<>>), FinalStatus("", FALSE, <<>>)>>,
      <<FinalStatus("", FALSE, <<>>), Row(<<Field("y", Val("uint", 2, ""))>>)>>,
      <<QueryError("syntax error"), FinalStatus("", FALSE, <<>>)>> }

----------------------------------------------------------------------------
(* Row iterator: query.go, iterateRows *)

NilStatus ==
    [ set |-> FALSE, Hits |-> 0, Misses |-> 0, Scanned |-> 0, Error |-> "",
      rs_present |-> FALSE, result_set |-> <<>> ]

\* reader.Unmarshal(&finalStatus); status = &finalStatus
Unmarshal(item) ==
    [ set |-> TRUE, Hits |-> item.hits, Misses |-> item.misses,
      Scanned |-> item.scanned, Error |-> item.error,
      rs_present |-> item.rs_present, result_set |-> item.result_set ]

Class(a, e) == [act |-> a, err |-> e]

\* the body of the loop of iterateRows from reader.Type() up to the call of
\* readRowFn, for the top-level value item
classifyValue(item) ==
    IF item.typ # "struct"
    THEN Class("fail", Err("protocol", "expected 'struct' type"))
    ELSE IF item.annot = "final_status"
    THEN Class("status", NoErr)
    ELSE IF item.annot = "query_error"
    THEN Class("continue", NoErr)
    ELSE IF item.annot # ""
    THEN Class("fail", Err("protocol", "unexpected annotation"))
    ELSE IF item.fields = <<>>
    THEN Class("fail", Err("io", "EOF"))    \* StepIn: len(body) == 0
    ELSE Class("row", NoErr)

\* the loop body without the check of the status pointer
iterateRowsStepNotTerminal(item, st) == classifyValue(item)

\* the body of the loop of iterateRows up to the call of readRowFn, for the
\* top-level value item when the status pointer is st
iterateRowsStep(item, st) ==
    IF st.set
    THEN Class("fail", Err("protocol", "unexpected data after ::final_status annotation"))
    ELSE classifyValue(item)

\* the return of iterateRows after the loop
iterateRowsEnd(st) ==
    IF ~st.set
    THEN Err("protocol", "missing final_status annotation (upstream query error)")
    ELSE NoErr

----------------------------------------------------------------------------
(* The wire encoding: reader.go reads a sequence of bytes; here a sequence  *)
(* of tokens.  A value is a descriptor token that carries the type tag,     *)
(* the declared size of the whole value in tokens and the scalar it holds,  *)
(* followed by size - 1 tokens of content.                                  *)

Tok(t, size, n, s) == [t |-> t, size |-> size, num |-> n, str |-> s]

\* a content byte of a scalar
Byte == Tok("byte", 0, 0, "")

\* the label of a struct field, and a label that ion.ReadLabel rejects
Label(name) == Tok("label", 0, 0, name)

BadLabel == Tok("badlabel", 0, 0, "")

\* the symbol of an annotation wrapper
AnnotSym(a) == Tok("sym", 0, 0, a)

Scalar(t, n, s) ==
    IF t \in {"null", "bool"} THEN <<Tok(t, 1, n, s)>> ELSE <<Tok(t, 2, n, s), Byte>>

Container(t, body) == <<Tok(t, 1 + Len(body), 0, "")>> \o body

Fld(name, enc) == <<Label(name)>> \o enc

Annotated(a, enc) == <<Tok("annot", 2 + Len(enc), 0, ""), AnnotSym(a)>> \o enc

\* the binary version marker
Bvm == Tok("bvm", 0, 0, "")

\* a symbol table: the annotation $ion_symbol_table around a struct, which
\* stands here for the symbols it defines
Symtab(id) ==
    <<Tok("annot", 3, 0, ""), AnnotSym("$ion_symbol_table"), Tok("struct", 1, 0, id)>>

\* two rows and a final_status envelope
RowStream ==
    Container("struct", Fld("x", Scalar("uint", 1, "")) \o Fld("y", Scalar("string", 0, "a")))
    \o Container("struct", Fld("x", Scalar("null", 0, "")))
    \o Annotated("final_status", Container("struct", Fld("error", Scalar("string", 0, ""))))

\* scalars of every type and a list that holds a struct
NestedStream ==
    Scalar("int", -1, "")
    \o Container("list", Scalar("float", 15, "")
                         \o Container("struct", Fld("x", Scalar("bool", 1, "")))
                         \o Scalar("timestamp", 1000, ""))
    \o Scalar("symbol", 0, "b")
    \o Scalar("blob", 0, "c")

\* a struct without fields, then a value
EmptyStream == Container("struct", <<>>) \o Scalar("uint", 2, "")

\* a whole struct whose field declares one token more than the struct holds
OversizeStream ==
    <<Tok("struct", 4, 0, ""), Label("x"), Tok("uint", 3, 2, ""), Byte>>
    \o Scalar("uint", 2, "")

\* a struct whose first label cannot be read
BadLabelStream ==
    Container("struct", <<BadLabel>> \o Scalar("uint", 1, "")) \o Scalar("uint", 2, "")

\* a version marker and a symbol table, a row, a symbol table that extends
\* the first, a marker with a table that replaces both, and a final_status
SymtabStream ==
    <<Bvm>> \o Symtab("t1")
    \o Container("struct", Fld("x", Scalar("uint", 1, "")))
    \o Symtab("t2")
    \o <<Bvm>> \o Symtab("t3")
    \o Annotated("final_status", Container("struct", Fld("error", Scalar("string", 0, ""))))

WholeStreams == {RowStream, NestedStream, EmptyStream}

Prefixes(w) == { SubSeq(w, 1, n) : n \in 0..Len(w) }

\* the prefixes of the stream with symbol tables that do not end in a
\* version marker
SymtabStreams ==
    { w \in Prefixes(SymtabStream) : w = <<>> \/ w[Len(w)] # Bvm }

ByteStreams ==
    UNION { Prefixes(w) : w \in WholeStreams }
        \cup SymtabStreams \cup {OversizeStream, BadLabelStream}

----------------------------------------------------------------------------
(* Reader: reader.go, bufferReader and IonReader *)

EOF == Err("io", "EOF")

\* an ionContext; its source is the tokens pos+1 .. lim of bytes, read
\* through a bufio.Reader at top level (top) and a byte slice in a container
Context(p, lim, top) ==
    [ pos |-> p, lim |-> lim, top |-> top, err |-> NoErr, typ |-> "invalid",
      size |-> 0, label |-> "", annotations |-> <<>> ]

\* the number of tokens the source still holds
Avail(c) == c.lim - c.pos

\* bufferReader.Peek(n): the tokens handed out and the error
Peek(c, n) ==
    [ n |-> IF Avail(c) < n THEN Avail(c) ELSE n,
      err |-> IF Avail(c) < n THEN EOF ELSE NoErr ]

\* bufferReader.Discard(n): bufio discards what there is; b.buf[n:] of a
\* slice shorter than n is a run-time panic
Discard(c, n) ==
    IF c.top
    THEN [panic |-> FALSE, ctx |-> [c EXCEPT !.pos = IF n > Avail(c) THEN c.lim ELSE c.pos + n]]
    ELSE IF n > Avail(c)
         THEN [panic |-> TRUE, ctx |-> c]
         ELSE [panic |-> FALSE, ctx |-> [c EXCEPT !.pos = c.pos + n]]

\* ion.TypeOf and ion.SizeOf of the token the source is at
TypeOf(tok) ==
    IF tok.t \in {"byte", "label", "badlabel", "sym"} THEN "reserved" ELSE tok.t

SizeOf(tok) ==
    IF tok.t \in {"byte", "label", "badlabel", "sym"} THEN 1 ELSE tok.size

\* ion.IsBVM of the bytes that start behind token at
IsBVM(at) == at + 1 \in DOMAIN bytes /\ bytes[at + 1] = Bvm

\* ionPeek: a version marker is dropped and counted in the size; ion.TypeOf
\* indexes the first byte behind it
ionPeek(c) ==
    IF Avail(c) = 0
    THEN [typ |-> "null", size |-> 0, err |-> EOF, panic |-> FALSE]
    ELSE IF ~IsBVM(c.pos)
    THEN [typ |-> TypeOf(bytes[c.pos + 1]), size |-> SizeOf(bytes[c.pos + 1]),
          err |-> NoErr, panic |-> FALSE]
    ELSE IF Avail(c) = 1
    THEN [typ |-> "null", size |-> 0, err |-> NoErr, panic |-> TRUE]
    ELSE [typ |-> TypeOf(bytes[c.pos + 2]), size |-> SizeOf(bytes[c.pos + 2]) + 1,
          err |-> NoErr, panic |-> FALSE]

\* isSymtab that takes no annotation for a symbol table
isSymtabNever(at) == FALSE

\* isSymtab on the bytes that start behind token at: a version marker, or an
\* annotation whose label is $ion_symbol_table
isSymtab(at) == IsBVM(at) \/ bytes[at + 2].str = "$ion_symbol_table"

\* r.Symbols.Unmarshal on the bytes that start behind token at: a version
\* marker resets the table, the symbols are interned behind those it holds
Unmarshal_Symbols(syms, at) ==
    LET from == IF IsBVM(at) THEN at + 1 ELSE at
        base == IF IsBVM(at) THEN <<>> ELSE syms
    IN  IF bytes[from + 2].str # "$ion_symbol_table"
        THEN [err |-> Err("ion", "first annotation field not $ion_symbol_table"),
              symbols |-> base]
        ELSE [err |-> NoErr, symbols |-> Append(base, bytes[from + 3].str)]

\* what Next hands back: the context, the boolean, the symbol table, and
\* whether it panicked
Went(c, ret, syms) == [ctx |-> c, ret |-> ret, symbols |-> syms, panic |-> FALSE]

\* Next: the label handleError
handleError(c, syms) ==
    IF c.err = EOF THEN Went([c EXCEPT !.err = NoErr], FALSE, syms) ELSE Went(c, TRUE, syms)

\* Next: the loop over the descriptors, which consumes annotation wrappers
\* and symbol tables until it is at a value
RECURSIVE nextValue(_, _)
nextValue(c, syms) ==
    LET p  == ionPeek(c)
        c1 == [c EXCEPT !.typ = p.typ, !.size = p.size, !.err = p.err]
        u  == Unmarshal_Symbols(syms, c1.pos)
    IN  IF p.panic THEN [ctx |-> c, ret |-> FALSE, symbols |-> syms, panic |-> TRUE]
        ELSE IF p.err # NoErr THEN handleError(c1, syms)
        ELSE IF p.typ # "annot" THEN Went(c1, TRUE, syms)
        ELSE IF Peek(c1, p.size).err # NoErr
             THEN handleError([c1 EXCEPT !.err = Peek(c1, p.size).err], syms)
        ELSE IF isSymtab(c1.pos)
             THEN IF u.err # NoErr
                  THEN handleError([c1 EXCEPT !.err = u.err], u.symbols)
                  ELSE nextValue(Discard(c1, p.size).ctx, u.symbols)
        ELSE nextValue([Discard(c1, 2).ctx EXCEPT
                           !.annotations = Append(@, bytes[c1.pos + 2].str)], syms)

\* Next: the label of a field when the reader is in a struct
nextLabel(c, syms) ==
    IF Avail(c) = 0
    THEN handleError([c EXCEPT !.err = EOF], syms)
    ELSE IF bytes[c.pos + 1].t # "label"
         THEN handleError([c EXCEPT !.err = Err("ion", "bad label")], syms)
         ELSE nextValue([Discard(c, 1).ctx EXCEPT
                            !.label = bytes[c.pos + 1].str, !.annotations = <<>>], syms)

inStruct(stk) == Len(stk) # 0 /\ stk[Len(stk)].typ = "struct"

\* IonReader.Next on context c with container stack stk and symbol table
\* syms
NextOf(c, stk, syms) ==
    LET d == IF c.size # 0 THEN Discard(c, c.size) ELSE [panic |-> FALSE, ctx |-> c]
    IN  IF d.panic THEN [ctx |-> c, ret |-> FALSE, symbols |-> syms, panic |-> TRUE]
        ELSE IF inStruct(stk) THEN nextLabel(d.ctx, syms)
        ELSE nextValue([d.ctx EXCEPT !.annotations = <<>>], syms)

\* r.buf: the window of bytes handed out by the last Peek of r.peek(), the
\* tokens at+1 .. at+n
Window(at, n) == [at |-> at, n |-> n]

\* IonReader.peek
peek(c, rb) ==
    IF c.size = 0
    THEN [err |-> NoErr, rbuf |-> rb]
    ELSE [err |-> Peek(c, c.size).err, rbuf |-> Window(c.pos, Peek(c, c.size).n)]

\* IonReader.discard, called after a peek that succeeded or on a null
discard(c) ==
    IF c.size = 0 THEN c ELSE [Discard(c, c.size).ctx EXCEPT !.size = 0]

\* a type check of StepIn that lets every type pass
IsContainerAny(typ) == TRUE

\* StepIn: r.ctx.typ is ion.StructType or ion.ListType
IsContainer(typ) == typ \in {"struct", "list"}

Did(e, c, stk, rb) == [err |-> e, ctx |-> c, stack |-> stk, rbuf |-> rb]

\* IonReader.StepIn
StepInOf(c, stk, rb) ==
    IF ~IsContainer(c.typ)
    THEN Did(Err("type", "expected 'struct' type or 'list' type"), c, stk, rb)
    ELSE LET pk == peek(c, rb)
         IN  IF pk.err # NoErr THEN Did(pk.err, c, stk, pk.rbuf)
             ELSE IF bytes[pk.rbuf.at + 1].size - 1 = 0    \* len(body) == 0
                  THEN Did(EOF, c, stk, pk.rbuf)
                  ELSE Did(NoErr,
                           Context(pk.rbuf.at + 1,
                                   pk.rbuf.at + bytes[pk.rbuf.at + 1].size, FALSE),
                           Append(stk, discard(c)), pk.rbuf)

\* StepOut with a source shared by the container and its parent
restoreContextSharedSource(outer, inner) == [outer EXCEPT !.pos = inner.pos]

\* StepOut: r.ctx = r.stack[len(r.stack)-1]
restoreContext(outer, inner) == outer

\* a StepOut that goes back to the outermost context of the stack
StepOutOfOutermost(c, stk, rb) ==
    IF Len(stk) = 0
    THEN Did(Err("invalid operation", "not inside a nested struct or list"), c, stk, rb)
    ELSE Did(NoErr, restoreContext(stk[1], c), SubSeq(stk, 2, Len(stk)), rb)

\* IonReader.StepOut
StepOutOf(c, stk, rb) ==
    IF Len(stk) = 0
    THEN Did(Err("invalid operation", "not inside a nested struct or list"), c, stk, rb)
    ELSE Did(NoErr, restoreContext(stk[Len(stk)], c), SubSeq(stk, 1, Len(stk) - 1), rb)

ReadBytes(c) ==
    IF c.typ # "blob" THEN Read(TypeMismatch, Nil) ELSE Read(NoErr, Out("blob", 0, c.str))

TypedReads ==
    {"ReadBool", "ReadUint", "ReadInt", "ReadFloat", "ReadString", "ReadSymbol",
     "ReadTimestamp", "ReadBytes"}

\* the type tag a typed read checks for
ReadsType(fn) ==
    CASE fn = "ReadBool"      -> "bool"
      [] fn = "ReadUint"      -> "uint"
      [] fn = "ReadInt"       -> "int"
      [] fn = "ReadFloat"     -> "float"
      [] fn = "ReadString"    -> "string"
      [] fn = "ReadSymbol"    -> "symbol"
      [] fn = "ReadTimestamp" -> "timestamp"
      [] fn = "ReadBytes"     -> "blob"

\* checkType and the ion.ReadX of a typed read on the value c
decodeTyped(fn, c) ==
    CASE fn = "ReadBool"      -> ReadBool(c)
      [] fn = "ReadUint"      -> ReadUint(c)
      [] fn = "ReadInt"       -> ReadInt(c)
      [] fn = "ReadFloat"     -> ReadFloat(c)
      [] fn = "ReadString"    -> ReadString(c)
      [] fn = "ReadSymbol"    -> ReadSymbol(c)
      [] fn = "ReadTimestamp" -> ReadTimestamp(c)
      [] fn = "ReadBytes"     -> ReadBytes(c)

\* the current value: the type of the context and the scalar of the
\* descriptor the source is at, or of r.buf when the value was read before
CurrentValue(c, rb) ==
    LET at == IF c.size # 0 THEN c.pos ELSE rb.at
    IN  IF at + 1 \in DOMAIN bytes
        THEN Val(c.typ, bytes[at + 1].num, bytes[at + 1].str)
        ELSE Val(c.typ, 0, "")

Got(e, v, c, rb) == [err |-> e, val |-> v, ctx |-> c, rbuf |-> rb]

\* a typed read that discards the pending value when its type check fails
TypedReadOfConsuming(fn, c, rb) ==
    LET r  == decodeTyped(fn, CurrentValue(c, rb))
        pk == peek(c, rb)
    IN  IF r.err # NoErr THEN Got(r.err, Nil, discard(c), rb)
        ELSE IF pk.err # NoErr THEN Got(pk.err, Nil, c, pk.rbuf)
        ELSE Got(NoErr, r.val, discard(c), pk.rbuf)

\* IonReader.ReadBool, ReadUint, ..., ReadBytes
TypedReadOf(fn, c, rb) ==
    LET r  == decodeTyped(fn, CurrentValue(c, rb))
        pk == peek(c, rb)
    IN  IF r.err # NoErr THEN Got(r.err, Nil, c, rb)
        ELSE IF pk.err # NoErr THEN Got(pk.err, Nil, c, pk.rbuf)
        ELSE Got(NoErr, r.val, discard(c), pk.rbuf)

\* a nullable read that treats null like any other tag
NullableReadOfNullChecked(fn, c, rb) == TypedReadOf(fn, c, rb)

\* IonReader.ReadNullableBool, ReadNullableUint, ..., ReadNullableBytes
NullableReadOf(fn, c, rb) ==
    IF c.typ = "null" THEN Got(NoErr, Nil, discard(c), rb) ELSE TypedReadOf(fn, c, rb)

\* no call has been made on the reader
NoCall ==
    [ op |-> "", fn |-> "", nullable |-> FALSE, ret |-> FALSE, err |-> NoErr,
      val |-> Nil, panic |-> FALSE, before |-> Context(0, 0, TRUE),
      stackBefore |-> <<>>, rbufBefore |-> Window(0, 0), resume |-> -1 ]

\* no StepIn and no StepOut has returned nil
NoSteps == [ins |-> 0, outs |-> 0, entered |-> <<>>, left |-> Context(0, 0, TRUE)]

\* NewReader over the input
NewReader(input) ==
    /\ bytes = input
    /\ ctx = Context(0, Len(input), TRUE)
    /\ stack = <<>>
    /\ rbuf = Window(0, 0)
    /\ last = NoCall
    /\ after = <<>>
    /\ symbols = <<>>
    /\ yielded = 0
    /\ steps = NoSteps

\* iterateRows is not running
NoIterate == [pc |-> "", index |-> 0, status |-> FALSE, annot |-> "", err |-> NoErr,
              calls |-> <<>>]

\* no reader of this model is in use
NoReader == NewReader(<<>>) /\ iter = NoIterate

\* IonReader.Next called on the reader
ReaderNext ==
    /\ ~last.panic
    /\ LET r == NextOf(ctx, stack, symbols)
       IN  /\ ctx' = r.ctx
           /\ symbols' = r.symbols
           /\ yielded' = IF r.ret /\ r.ctx.err = NoErr /\ stack = <<>> /\ ~r.panic
                         THEN yielded + 1
                         ELSE yielded
           /\ last' = [NoCall EXCEPT !.op = "Next", !.ret = r.ret, !.err = r.ctx.err,
                                     !.panic = r.panic, !.before = ctx, !.rbufBefore = rbuf,
                                     !.stackBefore = stack,
                                     !.resume = IF last.op = "StepOut" THEN last.resume
                                                ELSE -1]
    /\ UNCHANGED <<bytes, stack, rbuf, after, steps>>
    /\ UNCHANGED <<framevars, handlervars>>

\* a call of Next
CallNext == ReaderNext /\ UNCHANGED iter

\* the most StepIn calls that return nil on a reader
MaxStepIns == 4

\* IonReader.StepIn called on the reader; on a container that was entered
\* and left before, r.buf still holds the whole of a container
ReaderStepIn ==
    /\ ~last.panic
    /\ (IsContainer(ctx.typ) /\ ctx.size = 0) =>
           /\ rbuf.n # 0
           /\ IsContainer(bytes[rbuf.at + 1].t)
           /\ rbuf.n = bytes[rbuf.at + 1].size
           /\ steps.ins < MaxStepIns
    /\ LET r == StepInOf(ctx, stack, rbuf)
       IN  /\ ctx' = r.ctx
           /\ stack' = r.stack
           /\ rbuf' = r.rbuf
           /\ after' = IF Len(r.stack) > Len(stack)
                       THEN Append(after, ctx.pos + ctx.size)
                       ELSE after
           /\ last' = [NoCall EXCEPT !.op = "StepIn", !.err = r.err, !.before = ctx,
                                     !.rbufBefore = rbuf,
                                     !.stackBefore = stack]
           /\ steps' = IF r.err = NoErr
                       THEN [steps EXCEPT !.ins = @ + 1, !.entered = Append(@, ctx)]
                       ELSE steps
    /\ UNCHANGED <<bytes, symbols, yielded>>
    /\ UNCHANGED <<framevars, handlervars>>

\* a call of StepIn
CallStepIn == ReaderStepIn /\ UNCHANGED iter

\* IonReader.StepOut called on the reader
ReaderStepOut ==
    /\ ~last.panic
    /\ LET r == StepOutOf(ctx, stack, rbuf)
       IN  /\ ctx' = r.ctx
           /\ stack' = r.stack
           /\ after' = IF r.err = NoErr THEN SubSeq(after, 1, Len(after) - 1) ELSE after
           /\ last' = [NoCall EXCEPT !.op = "StepOut", !.err = r.err, !.before = ctx,
                                     !.rbufBefore = rbuf,
                                     !.stackBefore = stack,
                                     !.resume = IF r.err = NoErr THEN after[Len(after)]
                                                ELSE -1]
           /\ steps' = IF r.err = NoErr
                       THEN [steps EXCEPT
                                !.outs = @ + 1,
                                !.left = steps.entered[Len(steps.entered)],
                                !.entered = SubSeq(@, 1, Len(@) - 1)]
                       ELSE steps
    /\ UNCHANGED <<bytes, rbuf, symbols, yielded>>
    /\ UNCHANGED <<framevars, handlervars>>

\* a call of StepOut
CallStepOut == ReaderStepOut /\ UNCHANGED iter

\* a typed read or its nullable variant called on the reader
ReaderRead ==
    /\ ~last.panic
    /\ \E fn \in TypedReads, nullable \in BOOLEAN :
           LET r == IF nullable THEN NullableReadOf(fn, ctx, rbuf)
                    ELSE TypedReadOf(fn, ctx, rbuf)
           IN  /\ ctx' = r.ctx
               /\ rbuf' = r.rbuf
               /\ last' = [NoCall EXCEPT !.op = "Read", !.fn = fn, !.nullable = nullable,
                                         !.err = r.err, !.val = r.val, !.before = ctx,
                                         !.rbufBefore = rbuf,
                                         !.stackBefore = stack]
    /\ UNCHANGED <<bytes, stack, after, symbols, yielded, steps>>
    /\ UNCHANGED <<framevars, handlervars>>

\* a call of a typed read or of its nullable variant
CallRead == ReaderRead /\ UNCHANGED iter

NextReader == CallNext \/ CallStepIn \/ CallStepOut \/ CallRead

----------------------------------------------------------------------------

(* Frame assembler: query.go, frameFromSnellerResult *)

NewSchema == [RowCount |-> 0, Columns |-> <<>>, FinalStatus |-> NilStatus]

NewLookup == [n \in {} |-> 0]

NoFrame == [set |-> FALSE, Fields |-> <<>>, Hits |-> 0, Misses |-> 0, Scanned |-> 0]

NoResult == [returned |-> FALSE, err |-> NoErr, frame |-> NoFrame]

Failed(e) == [returned |-> TRUE, err |-> e, frame |-> NoFrame]

\* "Step 3": data.NewFrame with the fields and the stats of the final status
NewFrame(fvs, st) ==
    [ set     |-> TRUE,
      Fields  |-> [i \in DOMAIN fvs |-> [Name |-> fvs[i].Name, Values |-> fvs[i].Values]],
      Hits    |-> st.Hits,
      Misses  |-> st.Misses,
      Scanned |-> st.Scanned ]

NoPrev == [set |-> FALSE, schema |-> NewSchema, result |-> NoResult, derived |-> FALSE]

\* backend.NewQueryDataResponse(): a map without entries
NewQueryDataResponse == [ref \in {} |-> ""]

\* a data.Field and the nil *data.Field
DataField(name) == [set |-> TRUE, Name |-> name]

NilField == [set |-> FALSE, Name |-> ""]

\* grafanaFields is not running
NoFields ==
    [ pc |-> "", Columns |-> <<>>, limit |-> 0, i |-> 0, current |-> 0, wg |-> 0,
      gpc |-> <<>>, field |-> <<>>, fields |-> <<>>, closed |-> FALSE, recv |-> 0,
      result |-> <<>>, panic |-> FALSE ]

\* no request is being handled
NoRequest ==
    /\ conv = NoFields
    /\ queries = <<>>
    /\ hpc = "idle"
    /\ spawned = 0
    /\ wg = 0
    /\ mutex = 0
    /\ gpc = <<>>
    /\ gresp = <<>>
    /\ responses = NewQueryDataResponse
    /\ peak = 0
    /\ macros = <<>>

\* the state at the call of frameFromSnellerResult
Start ==
    /\ pc = "pass1"
    /\ pos = 0
    /\ index = 0
    /\ status = NilStatus
    /\ schema = NewSchema
    /\ lookup = NewLookup
    /\ fieldVals = <<>>
    /\ passErr = NoErr
    /\ result = NoResult

Init ==
    /\ buf \in { rows \o tail : rows \in RowSeqs, tail \in Tails }
    /\ timeField \in TimeFields
    /\ run = 1
    /\ prev = NoPrev
    /\ Start
    /\ NoRequest
    /\ NoReader

\* deriveSchema: one turn of the loop of iterateRows with the callback that
\* counts and analyzes the row
DeriveItem ==
    /\ pc = "pass1"
    /\ pos < Len(buf)
    /\ LET item == buf[pos + 1]
           c    == iterateRowsStep(item, status)
           r    == analyzeRow(item.fields, [schema EXCEPT !.RowCount = @ + 1], lookup)
       IN  /\ pos' = pos + 1
           /\ pc' = IF c.act = "fail" THEN "done" ELSE pc
           /\ result' = IF c.act = "fail" THEN Failed(c.err) ELSE result
           /\ status' = IF c.act = "status" THEN Unmarshal(item) ELSE status
           /\ schema' = IF c.act = "row" THEN r.schema ELSE schema
           /\ lookup' = IF c.act = "row" THEN r.lookup ELSE lookup
           /\ index' = IF c.act = "row" THEN index + 1 ELSE index
    /\ UNCHANGED <<buf, timeField, fieldVals, passErr, run, prev>>
    /\ UNCHANGED <<handlervars, readervars>>

\* deriveSchema: iterateRows returns at the end of the stream
DeriveEnd ==
    /\ pc = "pass1"
    /\ pos = Len(buf)
    /\ LET e == iterateRowsEnd(status)
       IN  /\ pc' = IF e # NoErr THEN "done" ELSE "derived"
           /\ result' = IF e # NoErr THEN Failed(e) ELSE result
           /\ schema' = IF e # NoErr THEN schema ELSE deriveSchemaFinish(schema, status)
    /\ UNCHANGED <<buf, timeField, pos, index, status, lookup, fieldVals, passErr, run, prev>>
    /\ UNCHANGED <<handlervars, readervars>>

\* frameFromSnellerResult: the checks of schema.FinalStatus
CheckStatus ==
    /\ pc = "derived"
    /\ LET e == IF ~schema.FinalStatus.set
                THEN Err("query execution failed", "missing ::final_status annotation")
                ELSE IF schema.FinalStatus.Error # ""
                     THEN Err("query execution failed", schema.FinalStatus.Error)
                     ELSE NoErr
       IN  /\ pc' = IF e # NoErr THEN "done" ELSE "alloc"
           /\ result' = IF e # NoErr THEN Failed(e) ELSE result
    /\ UNCHANGED <<buf, timeField, pos, index, status, schema, lookup, fieldVals,
                   passErr, run, prev>>
    /\ UNCHANGED <<handlervars, readervars>>

\* frameFromSnellerResult: "Step 2", one value array per column, and the
\* construction of the reader of the second iterateRows
Allocate ==
    /\ pc = "alloc"
    /\ LET r == allocFrom(schema, timeField, 1, <<>>)
       IN  /\ pc' = IF r.err # NoErr THEN "done" ELSE "pass2"
           /\ result' = IF r.err # NoErr THEN Failed(r.err) ELSE result
           /\ fieldVals' = r.fvs
    /\ pos' = 0
    /\ index' = 0
    /\ status' = NilStatus
    /\ UNCHANGED <<buf, timeField, schema, lookup, passErr, run, prev>>
    /\ UNCHANGED <<handlervars, readervars>>

\* second pass: one turn of the loop of iterateRows with the callback
\* readRowValues
ReadItem ==
    /\ pc = "pass2"
    /\ pos < Len(buf)
    /\ LET item == buf[pos + 1]
           c    == iterateRowsStep(item, status)
           r    == readRowValues(item.fields, index, fieldVals)
           e    == IF c.act = "fail" THEN c.err
                   ELSE IF c.act = "row" THEN r.err ELSE NoErr
       IN  /\ pos' = pos + 1
           /\ passErr' = e
           /\ pc' = IF e.kind = "panic" THEN "done"
                    ELSE IF e # NoErr THEN "assemble" ELSE pc
           /\ result' = IF e.kind = "panic" THEN Failed(e) ELSE result
           /\ status' = IF c.act = "status" THEN Unmarshal(item) ELSE status
           /\ fieldVals' = IF c.act = "row" THEN r.fvs ELSE fieldVals
           /\ index' = IF c.act = "row" /\ e = NoErr THEN index + 1 ELSE index
    /\ UNCHANGED <<buf, timeField, schema, lookup, run, prev>>
    /\ UNCHANGED <<handlervars, readervars>>

\* second pass: iterateRows returns at the end of the stream
ReadEnd ==
    /\ pc = "pass2"
    /\ pos = Len(buf)
    /\ passErr' = iterateRowsEnd(status)
    /\ pc' = "assemble"
    /\ UNCHANGED <<buf, timeField, pos, index, status, schema, lookup, fieldVals,
                   result, run, prev>>
    /\ UNCHANGED <<handlervars, readervars>>

\* frameFromSnellerResult: "Step 3"; the error of the second pass is not read
Assemble ==
    /\ pc = "assemble"
    /\ result' = [returned |-> TRUE, err |-> NoErr,
                  frame |-> NewFrame(fieldVals, schema.FinalStatus)]
    /\ pc' = "done"
    /\ UNCHANGED <<buf, timeField, pos, index, status, schema, lookup, fieldVals,
                   passErr, run, prev>>
    /\ UNCHANGED <<handlervars, readervars>>

Decode ==
    \/ DeriveItem
    \/ DeriveEnd
    \/ CheckStatus
    \/ Allocate
    \/ ReadItem
    \/ ReadEnd
    \/ Assemble

Next == Decode

Spec == Init /\ [][Next]_vars

\* deriveSchema alone: the first pass over the buffer
NextSchema == DeriveItem \/ DeriveEnd

SpecSchema == Init /\ [][NextSchema]_vars

----------------------------------------------------------------------------
(* The same buffer decoded once more, and the same rows in another order *)

\* deriveSchemaEntry with the schema and the map held in package variables
\* that a call does not renew
deriveSchemaEntryKept(earlierSchema, earlierLookup) ==
    [schema |-> [earlierSchema EXCEPT !.FinalStatus = NilStatus], lookup |-> earlierLookup]

\* deriveSchema: the schema literal and the lookup map of a call, whatever
\* the schema and the map of an earlier call were
deriveSchemaEntry(earlierSchema, earlierLookup) ==
    [schema |-> NewSchema, lookup |-> NewLookup]

\* a second call of frameFromSnellerResult on the same buffer with the same
\* time field
Redecode ==
    /\ pc = "done"
    /\ run = 1
    /\ run' = 2
    /\ prev' = [set |-> TRUE, schema |-> schema, result |-> result,
                derived |-> schema.FinalStatus.set]
    /\ pc' = "pass1"
    /\ pos' = 0
    /\ index' = 0
    /\ status' = NilStatus
    /\ schema' = deriveSchemaEntry(schema, lookup).schema
    /\ lookup' = deriveSchemaEntry(schema, lookup).lookup
    /\ fieldVals' = <<>>
    /\ passErr' = NoErr
    /\ result' = NoResult
    /\ UNCHANGED <<buf, timeField>>
    /\ UNCHANGED <<handlervars, readervars>>

NextTwice == Decode \/ Redecode

SpecTwice == Init /\ [][NextTwice]_vars

\* the positions of the data rows in the stream
RowPositions == { i \in DOMAIN buf : buf[i].annot = "" }

\* deriveSchema has returned; it is called again on a buffer that holds the
\* same data rows in another order, followed by the same final_status
Reorder ==
    /\ pc = "derived"
    /\ run = 1
    /\ run' = 2
    /\ prev' = [set |-> TRUE, schema |-> schema, result |-> result,
                derived |-> schema.FinalStatus.set]
    /\ \E p \in Permutations(RowPositions) :
           buf' = [i \in DOMAIN buf |-> IF i \in RowPositions THEN buf[p[i]] ELSE buf[i]]
    /\ pc' = "pass1"
    /\ pos' = 0
    /\ index' = 0
    /\ status' = NilStatus
    /\ schema' = deriveSchemaEntry(schema, lookup).schema
    /\ lookup' = deriveSchemaEntry(schema, lookup).lookup
    /\ UNCHANGED <<timeField, fieldVals, passErr, result>>
    /\ UNCHANGED <<handlervars, readervars>>

InitPerm == Init /\ timeField = ""

NextPerm == DeriveItem \/ DeriveEnd \/ Reorder

SpecPerm == InitPerm /\ [][NextPerm]_vars

----------------------------------------------------------------------------
(* The mapping table applied to any column descriptor *)

snellerColumnTypes ==
    { "snellerTypeUnknown", "snellerTypeNull", "snellerTypeBool", "snellerTypeNumber",
      "snellerTypeTimestamp", "snellerTypeString", "snellerTypeStruct", "snellerTypeList" }

\* the snellerColumn values of a column x
Descriptors ==
    [ Index : {0}, Name : {"x"}, Typ : snellerColumnTypes, Nullable : BOOLEAN,
      Optional : BOOLEAN, Floating : BOOLEAN, Signed : BOOLEAN, Count : {1} ]

\* frameFromSnellerResult at "Step 2" with a schema of one column
InitColumn ==
    /\ buf = <<>>
    /\ timeField \in TimeFields
    /\ run = 1
    /\ prev = NoPrev
    /\ pc = "alloc"
    /\ pos = 0
    /\ index = 0
    /\ status = NilStatus
    /\ \E column \in Descriptors :
           schema = [ RowCount    |-> 1,
                      Columns     |-> <<column>>,
                      FinalStatus |-> Unmarshal(FinalStatus("", FALSE, <<>>)) ]
    /\ lookup = NewLookup
    /\ fieldVals = <<>>
    /\ passErr = NoErr
    /\ result = NoResult
    /\ NoRequest
    /\ NoReader

NextColumn == Allocate

SpecColumn == InitColumn /\ [][NextColumn]_vars

----------------------------------------------------------------------------
(* The reader driven by any sequence of calls *)

\* frameFromSnellerResult is not running
NoDecode ==
    /\ buf = <<>>
    /\ timeField = ""
    /\ run = 1
    /\ prev = NoPrev
    /\ Start

InitReader ==
    /\ \E input \in ByteStreams : NewReader(input)
    /\ iter = NoIterate
    /\ NoDecode
    /\ NoRequest

SpecReader == InitReader /\ [][NextReader]_vars

----------------------------------------------------------------------------
(* Row iterator on the reader: query.go, iterateRows over the token stream *)

\* the variables of the IonReader
ionvars == <<bytes, ctx, stack, rbuf, last, after, symbols, yielded, steps>>

\* iterateRows returns the error e
Return(e) == [iter EXCEPT !.pc = "returned", !.err = e]

\* the loop condition and the loop body of iterateRows up to the switch on
\* the annotation, when reader.Next() has handed back r
afterNext(r) ==
    IF r.panic THEN [iter EXCEPT !.pc = "panic"]
    ELSE IF ~r.ret
    THEN Return(IF ~iter.status
                THEN Err("protocol", "missing final_status annotation (upstream query error)")
                ELSE r.ctx.err)
    ELSE IF iter.status
    THEN Return(Err("protocol", "unexpected data after ::final_status annotation"))
    ELSE IF r.ctx.typ # "struct"
    THEN Return(Err("protocol", "expected 'struct' type"))
    ELSE IF r.ctx.annotations # <<>>
    THEN IF r.ctx.annotations[1] \in {"final_status", "query_error"}
         THEN [iter EXCEPT !.pc = "unmarshal", !.annot = r.ctx.annotations[1]]
         ELSE Return(Err("protocol", "unexpected annotation"))
    ELSE [iter EXCEPT !.pc = "stepin"]

\* iterateRows: for reader.Next() and the checks of the value
IterNext ==
    /\ iter.pc = "next"
    /\ ReaderNext
    /\ iter' = afterNext(NextOf(ctx, stack, symbols))

\* iterateRows: reader.Unmarshal of a final_status or query_error envelope,
\* which peeks the value, decodes it and discards it
IterUnmarshal ==
    /\ iter.pc = "unmarshal"
    /\ ~last.panic
    /\ LET pk == peek(ctx, rbuf)
       IN  /\ rbuf' = pk.rbuf
           /\ ctx' = IF pk.err # NoErr THEN ctx ELSE discard(ctx)
           /\ last' = [NoCall EXCEPT !.op = "Unmarshal", !.err = pk.err, !.before = ctx,
                                     !.rbufBefore = rbuf, !.stackBefore = stack]
           /\ iter' = IF pk.err # NoErr THEN Return(pk.err)
                      ELSE [iter EXCEPT !.pc = "next",
                                        !.status = iter.annot = "final_status"]
    /\ UNCHANGED <<bytes, stack, after, symbols, yielded, steps>>
    /\ UNCHANGED <<framevars, handlervars>>

\* iterateRows: reader.StepIn() and, when it returns nil, the call of
\* readRowFn(reader, index) on the record at the offset of the reader
IterStepIn ==
    /\ iter.pc = "stepin"
    /\ ReaderStepIn
    /\ LET r == StepInOf(ctx, stack, rbuf)
       IN  iter' = IF r.err # NoErr
                   THEN Return(r.err)
                   ELSE [iter EXCEPT !.pc = "callback",
                                     !.calls = Append(@, [index |-> iter.index,
                                                          at |-> ctx.pos])]

\* readRowFn: the callback moves to the next field of the row
IterCallbackNext ==
    /\ iter.pc = "callback"
    /\ ReaderNext
    /\ iter' = IF NextOf(ctx, stack, symbols).panic THEN [iter EXCEPT !.pc = "panic"]
               ELSE iter

\* readRowFn: the callback reads the field it is at
IterCallbackRead ==
    /\ iter.pc = "callback"
    /\ ReaderRead
    /\ UNCHANGED iter

\* the errors a callback returns
CallbackErrors == {NoErr, Err("callback", "failed")}

\* readRowFn returns, with or without an error
IterCallbackReturn ==
    /\ iter.pc = "callback"
    /\ ~last.panic
    /\ \E e \in CallbackErrors :
           iter' = IF e # NoErr THEN Return(e) ELSE [iter EXCEPT !.pc = "stepout"]
    /\ UNCHANGED ionvars
    /\ UNCHANGED <<framevars, handlervars>>

\* iterateRows: reader.StepOut() and index++
IterStepOut ==
    /\ iter.pc = "stepout"
    /\ ReaderStepOut
    /\ LET r == StepOutOf(ctx, stack, rbuf)
       IN  iter' = IF r.err # NoErr
                   THEN Return(r.err)
                   ELSE [iter EXCEPT !.pc = "next", !.index = @ + 1]

InitIterate ==
    /\ \E input \in ByteStreams : NewReader(input)
    /\ iter = [NoIterate EXCEPT !.pc = "next"]
    /\ NoDecode
    /\ NoRequest

NextIterate ==
    \/ IterNext
    \/ IterUnmarshal
    \/ IterStepIn
    \/ IterCallbackNext
    \/ IterCallbackRead
    \/ IterCallbackReturn
    \/ IterStepOut

SpecIterate == InitIterate /\ [][NextIterate]_vars

----------------------------------------------------------------------------
(* Request handler: types.go, Datasource.handleQuery *)

MaxQueries == 3

RefIDs == {"A", "B"}

\* req.Queries: the RefID of each query
Requests == UNION { [1..n -> RefIDs] : n \in 0..MaxQueries }

\* what d.query returns: a response with frames or a response with an error
DataResponses == {"frames", "error"}

\* wg.Wait() that does not block
wgWaitNoBlock(n) == TRUE

\* wg.Wait(): blocks until the counter is zero
wgWait(n) == n = 0

\* the number of goroutines that are in d.query when gs are the positions
Running(gs) == Cardinality({ i \in DOMAIN gs : gs[i] = "query" })

Larger(a, b) == IF a > b THEN a ELSE b

InitHandler ==
    /\ queries \in Requests
    /\ hpc = "spawn"
    /\ spawned = 0
    /\ wg = Len(queries)
    /\ mutex = 0
    /\ gpc = [i \in DOMAIN queries |-> "new"]
    /\ gresp = [i \in DOMAIN queries |-> ""]
    /\ responses = NewQueryDataResponse
    /\ peak = 0
    /\ macros = <<>>
    /\ conv = NoFields
    /\ NoDecode
    /\ NoReader

\* the loop over req.Queries starts the goroutine of the next query
Spawn ==
    /\ hpc = "spawn"
    /\ spawned < Len(queries)
    /\ spawned' = spawned + 1
    /\ gpc' = [gpc EXCEPT ![spawned + 1] = "query"]
    /\ peak' = Larger(peak, Running(gpc'))
    /\ UNCHANGED <<queries, hpc, wg, mutex, gresp, responses, macros>>
    /\ UNCHANGED <<framevars, readervars, conv>>

\* the loop is over and wg.Wait() returns
Wait ==
    /\ hpc = "spawn"
    /\ spawned = Len(queries)
    /\ wgWait(wg)
    /\ hpc' = "returned"
    /\ UNCHANGED <<queries, spawned, wg, mutex, gpc, gresp, responses, peak, macros>>
    /\ UNCHANGED <<framevars, readervars, conv>>

\* goroutine i: resp := d.query(ctx, req.PluginContext, query)
Query(i) ==
    /\ gpc[i] = "query"
    /\ \E resp \in DataResponses : gresp' = [gresp EXCEPT ![i] = resp]
    /\ gpc' = [gpc EXCEPT ![i] = "lock"]
    /\ UNCHANGED <<queries, hpc, spawned, wg, mutex, responses, peak, macros>>
    /\ UNCHANGED <<framevars, readervars, conv>>

\* goroutine i: mutex.Lock()
Lock(i) ==
    /\ gpc[i] = "lock"
    /\ mutex = 0
    /\ mutex' = i
    /\ gpc' = [gpc EXCEPT ![i] = "store"]
    /\ UNCHANGED <<queries, hpc, spawned, wg, gresp, responses, peak, macros>>
    /\ UNCHANGED <<framevars, readervars, conv>>

\* goroutine i: response.Responses[query.RefID] = resp
Store(i) ==
    /\ gpc[i] = "store"
    /\ responses' = [ref \in DOMAIN responses \cup {queries[i]} |->
                        IF ref = queries[i] THEN gresp[i] ELSE responses[ref]]
    /\ gpc' = [gpc EXCEPT ![i] = "done"]
    /\ UNCHANGED <<queries, hpc, spawned, wg, mutex, gresp, peak, macros>>
    /\ UNCHANGED <<framevars, readervars, conv>>

\* goroutine i: wg.Done()
WgDone(i) ==
    /\ gpc[i] = "done"
    /\ wg' = wg - 1
    /\ gpc' = [gpc EXCEPT ![i] = "unlock"]
    /\ UNCHANGED <<queries, hpc, spawned, mutex, gresp, responses, peak, macros>>
    /\ UNCHANGED <<framevars, readervars, conv>>

\* goroutine i: the deferred mutex.Unlock()
Unlock(i) ==
    /\ gpc[i] = "unlock"
    /\ mutex' = 0
    /\ gpc' = [gpc EXCEPT ![i] = "exit"]
    /\ UNCHANGED <<queries, hpc, spawned, wg, gresp, responses, peak, macros>>
    /\ UNCHANGED <<framevars, readervars, conv>>

Goroutine == \E i \in DOMAIN queries : Query(i) \/ Lock(i) \/ Store(i) \/ WgDone(i) \/ Unlock(i)

NextHandler == Spawn \/ Wait \/ Goroutine

SpecHandler == InitHandler /\ [][NextHandler]_vars

----------------------------------------------------------------------------

(* Field conversion in goroutines: grafanaFields with its sized wait group  *)
(* and its channel                                                          *)

MaxColumns == 4

MaxCPU == 3

\* the names of the columns of a result set, in column order
ResultSetNames == <<"a", "b", "c", "d", "e", "f">>

\* a channel without buffer
chanCapUnbuffered(cols) == 0

\* make(chan *fieldWithIndex, len(resultSet.Columns))
chanCap(cols) == Len(cols)

\* the values that are in the channel: sent and not yet received
InChannel(c) == Len(c.fields) - c.recv

\* the variables of handleQuery and of d.query
requestvars == <<queries, hpc, spawned, wg, mutex, gpc, gresp, responses, peak, macros>>

\* the loop over resultSet.Columns: wg.Add() takes a slot of the sized wait
\* group, waiting while all are taken, and the goroutine of column i starts
FieldsAdd ==
    /\ conv.pc = "loop"
    /\ conv.i < Len(conv.Columns)
    /\ conv.current < conv.limit
    /\ conv' = [conv EXCEPT !.i = @ + 1,
                            !.current = @ + 1,
                            !.wg = @ + 1,
                            !.gpc[conv.i + 1] = "convert"]
    /\ UNCHANGED requestvars
    /\ UNCHANGED <<framevars, readervars>>

\* the goroutine of column k makes the field of its column
FieldConvert(k) ==
    /\ conv.gpc[k] = "convert"
    /\ conv' = [conv EXCEPT !.field[k] = DataField(conv.Columns[k]),
                            !.gpc[k] = "send"]
    /\ UNCHANGED requestvars
    /\ UNCHANGED <<framevars, readervars>>

\* fields <- &fieldWithIndex{Index: i, Field: field}: waits while the channel
\* is full; a send on a closed channel panics
FieldSend(k) ==
    /\ conv.gpc[k] = "send"
    /\ conv.closed \/ InChannel(conv) < chanCap(conv.Columns)
    /\ conv' = IF conv.closed
               THEN [conv EXCEPT !.panic = TRUE, !.gpc[k] = "exit"]
               ELSE [conv EXCEPT
                        !.fields = Append(@, [Index |-> k - 1, Field |-> conv.field[k]]),
                        !.gpc[k] = "done"]
    /\ UNCHANGED requestvars
    /\ UNCHANGED <<framevars, readervars>>

\* wg.Done() gives the slot back and counts the goroutine off
FieldDone(k) ==
    /\ conv.gpc[k] = "done"
    /\ conv' = [conv EXCEPT !.current = @ - 1, !.wg = @ - 1, !.gpc[k] = "exit"]
    /\ UNCHANGED requestvars
    /\ UNCHANGED <<framevars, readervars>>

\* wg.Wait() returns when every goroutine that was added is done
FieldsWait ==
    /\ conv.pc = "loop"
    /\ conv.i = Len(conv.Columns)
    /\ conv.wg = 0
    /\ conv' = [conv EXCEPT !.pc = "close"]
    /\ UNCHANGED requestvars
    /\ UNCHANGED <<framevars, readervars>>

\* close(fields); result := make([]*data.Field, len(resultSet.Columns))
FieldsClose ==
    /\ conv.pc = "close"
    /\ conv' = [conv EXCEPT !.closed = TRUE,
                            !.result = [k \in DOMAIN conv.Columns |-> NilField],
                            !.pc = "range"]
    /\ UNCHANGED requestvars
    /\ UNCHANGED <<framevars, readervars>>

\* for field := range fields: result[field.Index] = field.Field
FieldsReceive ==
    /\ conv.pc = "range"
    /\ conv.recv < Len(conv.fields)
    /\ conv' = [conv EXCEPT
                   !.recv = @ + 1,
                   !.result[conv.fields[conv.recv + 1].Index + 1]
                       = conv.fields[conv.recv + 1].Field]
    /\ UNCHANGED requestvars
    /\ UNCHANGED <<framevars, readervars>>

\* the range ends when the channel is closed and empty; return result
FieldsReturn ==
    /\ conv.pc = "range"
    /\ conv.recv = Len(conv.fields)
    /\ conv.closed
    /\ conv' = [conv EXCEPT !.pc = "returned"]
    /\ UNCHANGED requestvars
    /\ UNCHANGED <<framevars, readervars>>

\* grafanaFields is called with a result set of up to MaxColumns columns on
\* a machine of up to MaxCPU processors
InitFields ==
    /\ \E n \in 0..MaxColumns, cpu \in 1..MaxCPU :
           conv = [NoFields EXCEPT
                      !.pc = "loop",
                      !.Columns = SubSeq(ResultSetNames, 1, n),
                      !.limit = cpu,
                      !.gpc = [k \in 1..n |-> "new"],
                      !.field = [k \in 1..n |-> NilField]]
    /\ queries = <<>>
    /\ hpc = "idle"
    /\ spawned = 0
    /\ wg = 0
    /\ mutex = 0
    /\ gpc = <<>>
    /\ gresp = <<>>
    /\ responses = NewQueryDataResponse
    /\ peak = 0
    /\ macros = <<>>
    /\ NoDecode
    /\ NoReader

FieldGoroutine == \E k \in DOMAIN conv.gpc : FieldConvert(k) \/ FieldSend(k) \/ FieldDone(k)

NextFields ==
    \/ FieldsAdd
    \/ FieldGoroutine
    \/ FieldsWait
    \/ FieldsClose
    \/ FieldsReceive
    \/ FieldsReturn

\* the scheduler runs a goroutine that can take a step
SpecFields == InitFields /\ [][NextFields]_vars /\ WF_vars(NextFields)

----------------------------------------------------------------------------

(* Macro engine: query.go, snellerMacroEngine; types.go, Datasource.query.  *)
(* A SQL text is a sequence of pieces: plain text, and the places that the  *)
(* regular expressions and strings.ReplaceAll of Interpolate match.         *)

MaxSqlLen == 2

Piece(kind, name, arg) == [kind |-> kind, name |-> name, arg |-> arg]

\* plain text
SqlText(text) == Piece("text", "", text)

\* ${__from}, a match of regexDateRange
DateRange(which) == Piece("range", which, "")

\* $__interval_ms and $__max_data_points
IntervalMs == Piece("interval", "", "")

MaxDataPoints == Piece("limit", "", "")

\* $__name(arg), a match of regexMacroFunc
MacroFunc(name, arg) == Piece("func", name, arg)

SqlPieces ==
    { SqlText("SELECT"), DateRange("from"), IntervalMs, MaxDataPoints,
      MacroFunc("time", "x"), MacroFunc("time", "y"),
      MacroFunc("timeFilter", "x"), MacroFunc("timeGroup", "x") }

SQLs == UNION { [1..n -> SqlPieces] : n \in 0..MaxSqlLen }

\* what a callback returns: the engine and the replacement
Replaced(m, piece) == [m |-> m, piece |-> piece]

\* the callback of the date range: the time in milliseconds of the range
dateRangeFunc(m, groups) ==
    IF groups.name \in {"from", "to"}
    THEN Replaced(m, SqlText(groups.name \o " in ms"))
    ELSE Replaced(m, groups)

\* the callback of the macro functions in which every $__time sets the
\* candidate
macroFuncLastWins(m, groups) ==
    CASE groups.name = "time" ->
             Replaced([m EXCEPT !.timeCandidate = groups.arg], SqlText(groups.arg))
      [] groups.name = "timeFilter" ->
             Replaced(m, SqlText(groups.arg \o " BETWEEN from AND to"))
      [] OTHER -> Replaced(m, groups)

\* the callback of the macro functions
macroFunc(m, groups) ==
    CASE groups.name = "time" ->
             Replaced(IF m.timeCandidate = ""
                      THEN [m EXCEPT !.timeCandidate = groups.arg]
                      ELSE m,
                      SqlText(groups.arg))
      [] groups.name = "timeFilter" ->
             Replaced(m, SqlText(groups.arg \o " BETWEEN from AND to"))
      [] OTHER -> Replaced(m, groups)

\* the pieces a regular expression of the engine matches
Matches(re, piece) ==
    \/ re = "regexDateRange" /\ piece.kind = "range"
    \/ re = "regexMacroFunc" /\ piece.kind = "func"

\* replaceAllStringSubmatchFunc: every match of re in sql, from left to
\* right, is replaced by what the callback returns for its groups
RECURSIVE replaceAllStringSubmatchFunc(_, _, _, _)
replaceAllStringSubmatchFunc(re, sql, m, done) ==
    IF sql = <<>>
    THEN [m |-> m, sql |-> done]
    ELSE LET r == IF ~Matches(re, Head(sql)) THEN Replaced(m, Head(sql))
                  ELSE IF re = "regexDateRange" THEN dateRangeFunc(m, Head(sql))
                  ELSE macroFunc(m, Head(sql))
         IN  replaceAllStringSubmatchFunc(re, Tail(sql), r.m, Append(done, r.piece))

\* strings.ReplaceAll(sql, old, new)
ReplaceAll(sql, old, new) == [k \in DOMAIN sql |-> IF sql[k] = old THEN new ELSE sql[k]]

\* snellerMacroEngine.Interpolate
Interpolate(m, sql) ==
    LET ranged   == replaceAllStringSubmatchFunc("regexDateRange", sql, m, <<>>)
        interval == ReplaceAll(ranged.sql, IntervalMs, SqlText("interval in ms"))
        limited  == ReplaceAll(interval, MaxDataPoints, SqlText("limit"))
    IN  replaceAllStringSubmatchFunc("regexMacroFunc", limited, ranged.m, <<>>)

\* a query whose engine has not been made
NoEngine == [at |-> "none", timeCandidate |-> "", sql |-> <<>>, out |-> <<>>]

\* the engines that have interpolated a SQL text
Used(engines) == { ref \in DOMAIN engines : engines[ref].at = "done" }

\* one engine of the package used by every query: it holds the candidate a
\* query before left
newSnellerMacroEngineOfPackage(engines) ==
    IF Used(engines) = {}
    THEN [NoEngine EXCEPT !.at = "new"]
    ELSE [NoEngine EXCEPT !.at = "new",
                          !.timeCandidate =
                              engines[CHOOSE ref \in Used(engines) : TRUE].timeCandidate]

\* newSnellerMacroEngine, whatever the engines of other queries hold
newSnellerMacroEngine(engines) == [NoEngine EXCEPT !.at = "new"]

\* Datasource.query of the queries A and B, up to the call of executeQuery
InitMacro ==
    /\ queries = <<>>
    /\ hpc = "idle"
    /\ spawned = 0
    /\ wg = 0
    /\ mutex = 0
    /\ gpc = <<>>
    /\ gresp = <<>>
    /\ responses = NewQueryDataResponse
    /\ peak = 0
    /\ macros = [ref \in RefIDs |-> NoEngine]
    /\ conv = NoFields
    /\ NoDecode
    /\ NoReader

\* d.query of query ref: macros := newSnellerMacroEngine()
NewEngine(ref) ==
    /\ macros[ref].at = "none"
    /\ macros' = [macros EXCEPT ![ref] = newSnellerMacroEngine(macros)]
    /\ UNCHANGED <<queries, hpc, spawned, wg, mutex, gpc, gresp, responses, peak>>
    /\ UNCHANGED <<framevars, readervars, conv>>

\* d.query of query ref: sql := macros.Interpolate(query, input.SQL)
CallInterpolate(ref) ==
    /\ macros[ref].at = "new"
    /\ \E sql \in SQLs :
           LET r == Interpolate(macros[ref], sql)
           IN  macros' = [macros EXCEPT ![ref] =
                             [ at |-> "done", timeCandidate |-> r.m.timeCandidate,
                               sql |-> sql, out |-> r.sql ]]
    /\ UNCHANGED <<queries, hpc, spawned, wg, mutex, gpc, gresp, responses, peak>>
    /\ UNCHANGED <<framevars, readervars, conv>>

NextMacro == \E ref \in RefIDs : NewEngine(ref) \/ CallInterpolate(ref)

SpecMacro == InitMacro /\ [][NextMacro]_vars

----------------------------------------------------------------------------

(* What the stream holds, read off buf without the decoder *)

\* the data rows of the stream, in stream order
DataRows == SelectSeq(buf, LAMBDA it : it.annot = "")

Present(name, row) == \E k \in DOMAIN row.fields : row.fields[k].name = name

\* the column types of all occurrences of field name
ObservedTypes(name) ==
    UNION { { snellerType(DataRows[r].fields[k].typ) :
                k \in { j \in DOMAIN DataRows[r].fields :
                            DataRows[r].fields[j].name = name } } :
            r \in DOMAIN DataRows }

NonNullTypes(name) == ObservedTypes(name) \ {"snellerTypeNull"}

\* no row repeats a field name
NoRepeatedField ==
    \A r \in DOMAIN DataRows : \A j, k \in DOMAIN DataRows[r].fields :
        DataRows[r].fields[j].name = DataRows[r].fields[k].name => j = k

\* deriveSchema has returned a schema
Derived == schema.FinalStatus.set

HasColumn(name) == \E i \in DOMAIN schema.Columns : schema.Columns[i].Name = name

Column(name) ==
    schema.Columns[CHOOSE i \in DOMAIN schema.Columns : schema.Columns[i].Name = name]

----------------------------------------------------------------------------
(* Claims *)

\* C2: after deriveSchema a column is Optional if and only if its field name
\* is absent from at least one data row.
C2_OptionalIffAbsent ==
    Derived =>
        \A i \in DOMAIN schema.Columns :
            schema.Columns[i].Optional <=>
                \E r \in DOMAIN DataRows : ~Present(schema.Columns[i].Name, DataRows[r])

\* C3: a field that is null in some row and has one non-null type T wherever
\* else it appears gets a column with Nullable = true and Typ = T, whatever
\* the position of the nulls.
C3_NullKeepsType ==
    Derived =>
        \A n \in Names : \A t \in NonNullTypes(n) :
            ("snellerTypeNull" \in ObservedTypes(n) /\ NonNullTypes(n) = {t}) =>
                /\ HasColumn(n)
                /\ Column(n).Nullable
                /\ Column(n).Typ = t

\* C3 witness: the first sighting of x is a null, a later row gives it a
\* number, and the derived column is a nullable number.
C3_Witness ==
    /\ Derived
    /\ Len(DataRows) >= 2
    /\ DataRows[1].fields[1].name = "x"
    /\ DataRows[1].fields[1].typ = "null"
    /\ NonNullTypes("x") = {"snellerTypeNumber"}
    /\ Column("x").Nullable
    /\ Column("x").Typ = "snellerTypeNumber"

JSONReaders == {"readJSON", "readJSONNullable"}

\* C4: a field seen with two different non-null column types resolves to
\* the unknown type and is materialized with the JSON representation.
C4_ConflictIsUnknownJSON ==
    Derived =>
        \A i \in DOMAIN schema.Columns :
            Cardinality(NonNullTypes(schema.Columns[i].Name)) >= 2 =>
                /\ schema.Columns[i].Typ = "snellerTypeUnknown"
                /\ grafanaType(schema.Columns[i]) \in {"FieldTypeJSON", "FieldTypeNullableJSON"}
                /\ fieldVals # <<>> =>
                       /\ fieldVals[i].Name = schema.Columns[i].Name
                       /\ fieldVals[i].ReadFn \in JSONReaders
                /\ result.frame.set =>
                       \A j \in DOMAIN result.frame.Fields[i].Values :
                           result.frame.Fields[i].Values[j].k \in {"json", "nil"}

\* C4 witness: x is text in one row and a number in another, and the frame
\* holds its first value as JSON.
C4_Witness ==
    /\ result.frame.set
    /\ NonNullTypes("x") = {"snellerTypeString", "snellerTypeNumber"}
    /\ Column("x").Typ = "snellerTypeUnknown"
    /\ \E i \in DOMAIN result.frame.Fields :
           /\ result.frame.Fields[i].Name = "x"
           /\ result.frame.Fields[i].Values[1].k = "json"

\* the stream is data rows followed by one final_status envelope
EndsWithFinalStatus ==
    /\ Len(buf) >= 1
    /\ buf[Len(buf)].annot = "final_status"
    /\ \A i \in 1..(Len(buf) - 1) : buf[i].annot = ""

\* the value of field name in a row that holds it once
CellOf(name, row) ==
    row.fields[CHOOSE k \in DOMAIN row.fields : row.fields[k].name = name]

IsInteger(c) == c.typ \in {"uint", "int"}

\* the element that holds value c in an array of representation typ
Expected(typ, c) ==
    CASE c.typ = "null" /\ typ # "FieldTypeNullableJSON"      -> Nil
      [] typ \in {"FieldTypeJSON", "FieldTypeNullableJSON"}     -> ReadValue(c).val
      [] typ \in {"FieldTypeUint64", "FieldTypeNullableUint64"} -> Out("uint", c.num, "")
      [] typ \in {"FieldTypeInt64", "FieldTypeNullableInt64"}   -> Out("int", c.num, "")
      [] typ \in {"FieldTypeFloat64", "FieldTypeNullableFloat64"}
             -> Out("float", IF c.typ = "float" THEN c.num ELSE 10 * c.num, "")
      [] typ \in {"FieldTypeString", "FieldTypeNullableString"} -> Out("string", 0, c.str)
      [] OTHER                                                  -> Out(c.typ, c.num, c.str)

\* C6: a field present in every one of the n data rows with a non-null
\* integer value is a non-nullable, non-optional column of length n that
\* holds at index i the integer of row i (stated for a stream without time
\* field whose rows repeat no field name).
C6_IntegerColumn ==
    (result.frame.set /\ NoRepeatedField /\ ~HasColumn(timeField)) =>
        \A n \in Names :
            (/\ Len(DataRows) >= 1
             /\ \A r \in DOMAIN DataRows :
                    Present(n, DataRows[r]) /\ IsInteger(CellOf(n, DataRows[r])))
            => \E i \in DOMAIN result.frame.Fields :
                   /\ result.frame.Fields[i].Name = n
                   /\ ~schema.Columns[i].Nullable
                   /\ ~schema.Columns[i].Optional
                   /\ grafanaType(schema.Columns[i]) \in {"FieldTypeUint64", "FieldTypeInt64"}
                   /\ Len(result.frame.Fields[i].Values) = Len(DataRows)
                   /\ \A r \in DOMAIN DataRows :
                          /\ result.frame.Fields[i].Values[r].k \in {"uint", "int"}
                          /\ result.frame.Fields[i].Values[r].num = CellOf(n, DataRows[r]).num

\* C7: a column absent from some row is a nullable array of length RowCount
\* whose entry i is the value of row i when row i carries the field and nil
\* when it does not (stated for a stream without time field whose rows
\* repeat no field name).
C7_SparseColumn ==
    (result.frame.set /\ NoRepeatedField /\ ~HasColumn(timeField)) =>
        \A i \in DOMAIN schema.Columns :
            LET n == schema.Columns[i].Name
                typ == grafanaType(schema.Columns[i])
            IN  (\E r \in DOMAIN DataRows : ~Present(n, DataRows[r]))
                => /\ result.frame.Fields[i].Name = n
                   /\ typ = NullableType(typ)
                   /\ Len(result.frame.Fields[i].Values) = schema.RowCount
                   /\ schema.RowCount = Len(DataRows)
                   /\ \A r \in DOMAIN DataRows :
                          result.frame.Fields[i].Values[r] =
                              IF Present(n, DataRows[r])
                              THEN Expected(typ, CellOf(n, DataRows[r]))
                              ELSE Nil

\* C8: when the stream ends with a final_status envelope whose error is
\* empty, frameFromSnellerResult returns a frame and no error, and the stats
\* Hits, Misses and Scanned of the frame are those of the envelope.
C8_StatsFromFinalStatus ==
    (pc = "done" /\ EndsWithFinalStatus /\ buf[Len(buf)].error = "") =>
        /\ result.err = NoErr
        /\ result.frame.set
        /\ result.frame.Hits = buf[Len(buf)].hits
        /\ result.frame.Misses = buf[Len(buf)].misses
        /\ result.frame.Scanned = buf[Len(buf)].scanned

\* C9: when the final_status envelope carries a non-empty error,
\* frameFromSnellerResult returns an error with that message and no frame,
\* and no column array is allocated and no second pass is started.
C9_ErrorStatusStops ==
    (EndsWithFinalStatus /\ buf[Len(buf)].error # "") =>
        /\ pc \notin {"alloc", "pass2", "assemble"}
        /\ fieldVals = <<>>
        /\ pc = "done" =>
               /\ ~result.frame.set
               /\ result.err.msg = buf[Len(buf)].error

\* the text values of field name are all valid RFC 3339 timestamps
AllTextValid(name) ==
    \A r \in DOMAIN DataRows : \A k \in DOMAIN DataRows[r].fields :
        (DataRows[r].fields[k].name = name /\ DataRows[r].fields[k].typ = "string")
            => DataRows[r].fields[k].str = TimeText

\* C10: for the time field with resolved type text: if every text is a valid
\* RFC 3339 timestamp each entry is the instant of its row's text; if some
\* text is not, frameFromSnellerResult returns an error and no frame.
C10_TimeFromText ==
    (pc = "done" /\ Derived /\ schema.FinalStatus.Error = ""
        /\ HasColumn(timeField) /\ Column(timeField).Typ = "snellerTypeString") =>
        IF AllTextValid(timeField)
        THEN /\ result.frame.set
             /\ \E i \in DOMAIN result.frame.Fields :
                    /\ result.frame.Fields[i].Name = timeField
                    /\ \A r \in DOMAIN DataRows :
                           (Present(timeField, DataRows[r])
                              /\ CellOf(timeField, DataRows[r]).typ = "string")
                               => result.frame.Fields[i].Values[r] = Out("time", 1000, "")
        ELSE /\ ~result.frame.set
             /\ result.err # NoErr

\* a descriptor without its Index
Resolved(col) ==
    [ Name |-> col.Name, Typ |-> col.Typ, Nullable |-> col.Nullable,
      Optional |-> col.Optional, Floating |-> col.Floating,
      Signed |-> col.Signed, Count |-> col.Count ]

ResolvedColumns(sc) == { Resolved(sc.Columns[i]) : i \in DOMAIN sc.Columns }

\* C1: deriveSchema over two orders of the same data rows yields for every
\* column name the same Typ, Nullable, Optional, Floating, Signed and Count.
C1_OrderIndependent ==
    (run = 2 /\ Derived /\ prev.derived) =>
        ResolvedColumns(schema) = ResolvedColumns(prev.schema)

----------------------------------------------------------------------------
(* Claims on the time field, the status envelopes and the end of the stream *)

\* the stream is one or more data rows, each with one field at least and
\* none with a repeated name, followed by a final_status without error
PlainStream ==
    /\ EndsWithFinalStatus
    /\ buf[Len(buf)].error = ""
    /\ NoRepeatedField
    /\ \A r \in DOMAIN DataRows : DataRows[r].fields # <<>>

\* field name is an integer in one row at least and an integer or a null in
\* every row that carries it
IntegerField(name) ==
    /\ \E r \in DOMAIN DataRows :
           Present(name, DataRows[r]) /\ IsInteger(CellOf(name, DataRows[r]))
    /\ \A r \in DOMAIN DataRows :
           Present(name, DataRows[r]) =>
               CellOf(name, DataRows[r]).typ \in {"uint", "int", "null"}

\* C11: for the time field with a resolved non-floating number type a frame
\* is returned in which every row's integer v, unsigned or signed, in a
\* nullable, optional or plain column, is the time v ms after the epoch.
C11_TimeFromInteger ==
    (pc = "done" /\ PlainStream /\ timeField # "" /\ IntegerField(timeField)) =>
        /\ result.frame.set
        /\ \E i \in DOMAIN result.frame.Fields :
               /\ result.frame.Fields[i].Name = timeField
               /\ \A r \in DOMAIN DataRows :
                      (Present(timeField, DataRows[r])
                         /\ IsInteger(CellOf(timeField, DataRows[r])))
                      => result.frame.Fields[i].Values[r] =
                             Out("time", CellOf(timeField, DataRows[r]).num, "")

\* the position of the first final_status envelope of the stream, 0 if none
FirstFinalStatus ==
    IF \E k \in DOMAIN buf : buf[k].annot = "final_status"
    THEN CHOOSE k \in DOMAIN buf :
             /\ buf[k].annot = "final_status"
             /\ \A j \in 1..(k - 1) : buf[j].annot # "final_status"
    ELSE 0

\* a top-level value follows the first final_status envelope
DataAfterFinalStatus == FirstFinalStatus # 0 /\ FirstFinalStatus < Len(buf)

\* the number of data rows among the first k top-level values
RowsUpTo(k) == Cardinality({ j \in 1..k : buf[j].annot = "" })

\* C12: when a top-level value follows a final_status record, iterateRows
\* stops at that value with an error and no status, the callback is invoked
\* for no value after the record, and no frame is returned.
C12_FinalStatusTerminal ==
    DataAfterFinalStatus =>
        /\ pos <= FirstFinalStatus + 1
        /\ schema.RowCount <= RowsUpTo(FirstFinalStatus)
        /\ index <= RowsUpTo(FirstFinalStatus)
        /\ ~Derived
        /\ pc \in {"pass1", "done"}
        /\ pc = "done" => (result.err # NoErr /\ ~result.frame.set)

\* C12 witness: a data row follows final_status, and the call has returned
\* the error of the value after the envelope with the rows before it counted.
C12_Witness ==
    /\ DataAfterFinalStatus
    /\ buf[FirstFinalStatus + 1].annot = ""
    /\ pc = "done"
    /\ pos = FirstFinalStatus + 1
    /\ schema.RowCount = RowsUpTo(FirstFinalStatus)
    /\ schema.RowCount >= 1
    /\ result.err = Err("protocol", "unexpected data after ::final_status annotation")

\* the error of iterateRows for a stream in which no final_status was seen
MissingFinalStatus == iterateRowsEnd(NilStatus)

\* the position of the first query_error record of the stream, 0 if none
FirstQueryError ==
    IF \E k \in DOMAIN buf : buf[k].annot = "query_error"
    THEN CHOOSE k \in DOMAIN buf :
             /\ buf[k].annot = "query_error"
             /\ \A j \in 1..(k - 1) : buf[j].annot # "query_error"
    ELSE 0

\* C13: a query_error record is terminal and its message is the failure the
\* caller receives: no frame is returned, the error carries the message, and
\* no value after the record is accepted.
C13_QueryErrorTerminal ==
    (FirstQueryError # 0 /\ \A r \in DOMAIN DataRows : DataRows[r].fields # <<>>) =>
        /\ pos <= FirstQueryError + 1
        /\ ~Derived
        /\ pc = "done" =>
               /\ ~result.frame.set
               /\ result.err.msg = buf[FirstQueryError].error

\* C14: a stream without any status envelope makes iterateRows fail and
\* frameFromSnellerResult return no frame, and the error of the missing
\* envelope is not the error returned for a stream that ends with an explicit
\* failure record (a query_error record or a final_status with an error).
C14_MissingEnvelopeDistinct ==
    (pc = "done" /\ \A r \in DOMAIN DataRows : DataRows[r].fields # <<>>) =>
        /\ (\A k \in DOMAIN buf : buf[k].annot = "") =>
               (~Derived /\ ~result.frame.set /\ result.err = MissingFinalStatus)
        /\ (EndsWithFinalStatus /\ buf[Len(buf)].error # "") =>
               (result.err # NoErr /\ result.err # MissingFinalStatus)
        /\ (Len(buf) >= 1 /\ buf[Len(buf)].annot = "query_error") =>
               (result.err # NoErr /\ result.err # MissingFinalStatus)

----------------------------------------------------------------------------
(* Claims on the request handler *)

\* the goroutines that hold the mutex between Lock and Unlock
InCritical == { i \in DOMAIN gpc : gpc[i] \in {"store", "done", "unlock"} }

\* C15: handleQuery returns only after every goroutine has stored its
\* response and called wg.Done(); on return the map holds one response for
\* each distinct RefID of the request and nothing else, each the response of
\* a query with that RefID, successful or not; writes of the map never
\* overlap.
C15_OneResponsePerRefID ==
    /\ Cardinality(InCritical) <= 1
    /\ hpc = "returned" =>
           /\ \A i \in DOMAIN queries : gpc[i] \in {"unlock", "exit"}
           /\ DOMAIN responses = { queries[i] : i \in DOMAIN queries }
           /\ \A ref \in DOMAIN responses :
                  \E i \in DOMAIN queries : queries[i] = ref /\ responses[ref] = gresp[i]

\* C15 witness: a request with two RefIDs, one of them twice, whose queries
\* all ran at the same time, has returned one failed and one successful
\* response.
C15_Witness ==
    /\ hpc = "returned"
    /\ Len(queries) = MaxQueries
    /\ peak = MaxQueries
    /\ DOMAIN responses = RefIDs
    /\ responses["A"] = "error"
    /\ responses["B"] = "frames"

----------------------------------------------------------------------------
(* Claims on the reader *)

\* C16: a typed read on a value whose tag is not the type it reads returns
\* the type-mismatch error; a nullable variant on a null returns nil and no
\* error, and on any other tag leaves the reader as, and returns what, the
\* non-nullable read does.
C16_TypedReadChecksTag ==
    last.op = "Read" =>
        LET typ   == last.before.typ
            plain == TypedReadOf(last.fn, last.before, last.rbufBefore)
        IN  /\ (typ # ReadsType(last.fn) /\ ~(last.nullable /\ typ = "null"))
                   => (last.err = TypeMismatch /\ last.val = Nil)
            /\ (last.nullable /\ typ = "null")
                   => (last.err = NoErr /\ last.val = Nil)
            /\ (last.nullable /\ typ # "null")
                   => /\ last.err = plain.err
                      /\ last.val = plain.val
                      /\ ctx = plain.ctx
                      /\ rbuf = plain.rbuf

\* C16 witness: ReadNullableUint has returned a type mismatch on a string,
\* having left the value pending.
C16_Witness ==
    /\ last.op = "Read"
    /\ last.fn = "ReadUint"
    /\ last.nullable
    /\ last.before.typ = "string"
    /\ last.err = TypeMismatch
    /\ ctx = last.before

\* C17: StepOut with an empty container stack returns an error, and StepIn on
\* a value that is neither a struct nor a list returns a type error; either
\* call leaves the stack and the current context (position, type, size) as
\* they were.
C17_IllegalStackOpChangesNothing ==
    /\ (last.op = "StepOut" /\ Len(last.stackBefore) = 0) =>
           /\ last.err # NoErr
           /\ ctx = last.before
           /\ stack = last.stackBefore
    /\ (last.op = "StepIn" /\ last.before.typ \notin {"struct", "list"}) =>
           /\ last.err.kind = "type"
           /\ ctx = last.before
           /\ stack = last.stackBefore
           /\ rbuf = last.rbufBefore

\* C17 witness: inside a container StepIn was called on a pending unsigned
\* integer and has returned the type error.
C17_Witness ==
    /\ last.op = "StepIn"
    /\ last.before.typ = "uint"
    /\ last.before.size # 0
    /\ Len(stack) = 1
    /\ last.err.kind = "type"

\* the descriptor of the value that starts at token h, behind its annotation
\* wrappers
RECURSIVE HeaderAt(_)
HeaderAt(h) == IF bytes[h].t = "annot" THEN HeaderAt(h + 2) ELSE h

Remaining(c) == IF c.pos + c.size >= c.lim THEN 0 ELSE c.lim - (c.pos + c.size)

\* the reader is at the descriptor of a value of the type it reports
OnValue(c) ==
    /\ Avail(c) >= 1
    /\ bytes[c.pos + 1].t \notin {"byte", "label", "badlabel", "sym", "annot"}
    /\ c.typ = bytes[c.pos + 1].t
    /\ c.size = bytes[c.pos + 1].size

\* C19: Next returns true only when it is on a next value and no error is
\* recorded; it returns false with Error() = nil when the source holds
\* nothing behind the value it was on, and false with the error recorded
\* when it fails; it does not panic.
C19_NextReportsErrors ==
    last.op = "Next" =>
        /\ ~last.panic
        /\ last.ret => (last.err = NoErr /\ OnValue(ctx))
        /\ ~last.ret => (last.err = NoErr <=> Remaining(last.before) = 0)
        /\ last.err # NoErr => ~last.ret

\* the source of context c ends exactly behind its pending value
EndsAtBoundary(c) == c.pos + c.size = c.lim

\* the pending value of context c declares more tokens than its source holds
Truncated(c) == c.pos + c.size > c.lim

\* C20: iteration ends without error when the input ends at a value
\* boundary; when the input ends inside a value, at top level or in a
\* container, the reader reports an error: Next does not end the iteration
\* as if the input were whole, a read of the value does not return it, and
\* no call panics.
C20_TruncationIsAnError ==
    /\ ~last.panic
    /\ (last.op = "Next" /\ ~last.ret /\ EndsAtBoundary(last.before)) => last.err = NoErr
    /\ (last.op = "Next" /\ ~last.ret /\ last.err = NoErr) => ~Truncated(last.before)
    /\ (last.op = "Read" /\ Truncated(last.before) /\ last.before.typ # "null")
           => last.err # NoErr

----------------------------------------------------------------------------
(* Claims on symbol tables, widening and the mapping table *)

\* the number of top-level values that are not symbol tables and whose
\* descriptor is among the first upto tokens, counted from offset p on
RECURSIVE TopValues(_, _)
TopValues(p, upto) ==
    IF p >= Len(bytes)
    THEN 0
    ELSE LET tok == bytes[p + 1]
         IN  IF tok = Bvm
             THEN TopValues(p + 1, upto)
             ELSE IF tok.t = "annot"
             THEN IF p + tok.size > Len(bytes)
                  THEN 0
                  ELSE IF bytes[p + 2].str = "$ion_symbol_table"
                       THEN TopValues(p + tok.size, upto)
                       ELSE (IF p + 3 <= upto THEN 1 ELSE 0)
                                + TopValues(p + tok.size, upto)
             ELSE (IF p + 1 <= upto THEN 1 ELSE 0) + TopValues(p + tok.size, upto)

\* the symbol table made by the version markers and the whole symbol tables
\* that start among the first upto tokens, from offset p on with table syms
RECURSIVE SymbolsUpTo(_, _, _)
SymbolsUpTo(p, upto, syms) ==
    IF p >= upto \/ p >= Len(bytes)
    THEN syms
    ELSE LET tok == bytes[p + 1]
         IN  IF tok = Bvm
             THEN SymbolsUpTo(p + 1, upto, <<>>)
             ELSE IF tok.t = "annot" /\ p + tok.size <= Len(bytes)
                     /\ bytes[p + 2].str = "$ion_symbol_table"
             THEN SymbolsUpTo(p + tok.size, upto, Append(syms, bytes[p + 3].str))
             ELSE SymbolsUpTo(p + tok.size, upto, syms)

\* the top-level offset the reader is at: that of the context, or behind the
\* outermost container entered
TopOffset == IF stack = <<>> THEN ctx.pos ELSE stack[1].pos

\* C21: when Next returns true without error the current value is not an
\* annotation, every symbol table that precedes it in the stream has been
\* applied to r.Symbols, in stream order, and the values Next has moved to at
\* top level are the top-level values up to it that are not symbol tables;
\* at the end of the input their number is that of all such values.
C21_SymtabsNotSurfaced ==
    /\ (last.op = "Next" /\ last.ret /\ last.err = NoErr) =>
           /\ ctx.typ # "annot"
           /\ symbols = SymbolsUpTo(0, TopOffset, <<>>)
           /\ stack = <<>> => yielded = TopValues(0, ctx.pos + 1)
    /\ (last.op = "Next" /\ ~last.ret /\ ~last.panic /\ stack = <<>>) =>
           yielded = TopValues(0, Len(bytes))

\* C21 witness: Next is on the final_status envelope behind a row and three
\* symbol tables, the last of which came with a version marker.
C21_Witness ==
    /\ last.op = "Next"
    /\ last.ret
    /\ last.err = NoErr
    /\ bytes = SymtabStream
    /\ stack = <<>>
    /\ ctx.annotations = <<"final_status">>
    /\ symbols = <<"t3">>
    /\ yielded = 2

\* some data row holds a floating-point value for field name
HasFloat(name) ==
    \E r \in DOMAIN DataRows : \E k \in DOMAIN DataRows[r].fields :
        DataRows[r].fields[k].name = name /\ DataRows[r].fields[k].typ = "float"

\* the floating-point number equal to the numeric value c, in tenths
Promoted(c) == IF c.typ = "float" THEN c.num ELSE 10 * c.num

NumericTags == {"uint", "int", "float"}

Representation(column) ==
    CASE column.Typ \in {"snellerTypeUnknown", "snellerTypeNull",
                         "snellerTypeStruct", "snellerTypeList"} -> "JSON"
      [] column.Typ = "snellerTypeBool"      -> "Bool"
      [] column.Typ = "snellerTypeNumber"    ->
             IF column.Floating THEN "Float64"
             ELSE IF column.Signed THEN "Int64" ELSE "Uint64"
      [] column.Typ = "snellerTypeTimestamp" -> "Time"
      [] column.Typ = "snellerTypeString"    -> "String"

\* C23: grafanaType maps unknown, null, struct and list to JSON, bool to
\* boolean, number to float64 if Floating, else int64 if Signed, else uint64,
\* timestamp to time and string to text, and gives the nullable variant if
\* and only if Nullable or Optional is set; the reader bound to a column that
\* is not the time field is the one of that representation.
C23_GrafanaTypeTable ==
    \A i \in DOMAIN schema.Columns :
        LET column == schema.Columns[i]
            opt    == column.Nullable \/ column.Optional
        IN  /\ grafanaType(column) =
                   (IF opt THEN "FieldTypeNullable" ELSE "FieldType")
                       \o Representation(column)
            /\ (pc = "pass2" /\ ~isTimeField(column, timeField)) =>
                   fieldVals[i].ReadFn =
                       "read" \o Representation(column)
                           \o (IF opt THEN "Nullable" ELSE "")

\* C23 witness: a signed number column that is optional and not nullable has
\* been given the reader of nullable int64.
C23_Witness ==
    /\ pc = "pass2"
    /\ timeField = ""
    /\ Len(schema.Columns) = 1
    /\ schema.Columns[1].Typ = "snellerTypeNumber"
    /\ schema.Columns[1].Signed
    /\ ~schema.Columns[1].Floating
    /\ schema.Columns[1].Optional
    /\ ~schema.Columns[1].Nullable
    /\ fieldVals[1].ReadFn = "readInt64Nullable"

UnsupportedKinds == {"unsupported field type", "unsupported field type for time field"}

\* C24: for every column that deriveSchema produces from a well-formed
\* stream, and with the time-field designation that frameFromSnellerResult
\* computes for it, grafanaFieldValues returns a mapping, and
\* frameFromSnellerResult never returns an "unsupported field type" error.
C24_MappingTotal ==
    (Derived /\ PlainStream) =>
        /\ \A i \in DOMAIN schema.Columns :
               grafanaFieldValues(schema.Columns[i].Name, schema.RowCount,
                                  schema.Columns[i],
                                  isTimeField(schema.Columns[i], timeField)).err = NoErr
        /\ pc = "done" => result.err.kind \notin UnsupportedKinds

----------------------------------------------------------------------------
(* Claims on the column order, the flags and the errors of the second pass *)

\* the field list of the final_status envelope of the stream
ResultSet == buf[Len(buf)].result_set

InResultSet(name) == \E k \in DOMAIN ResultSet : ResultSet[k] = name

\* the position of a name in the field list
PosInResultSet(name) == CHOOSE k \in DOMAIN ResultSet : ResultSet[k] = name

\* deriveSchema has returned the schema of a stream that ends with a
\* final_status envelope that carries a field list
DerivedWithResultSet ==
    /\ Derived
    /\ EndsWithFinalStatus
    /\ buf[Len(buf)].rs_present

\* C25: with a result_set field list, of two columns whose names both occur
\* in the list the one that occurs earlier in the list is earlier in
\* schema.Columns.
C25_ResultSetOrder ==
    DerivedWithResultSet =>
        \A i, j \in DOMAIN schema.Columns :
            (/\ InResultSet(schema.Columns[i].Name)
             /\ InResultSet(schema.Columns[j].Name)
             /\ PosInResultSet(schema.Columns[i].Name)
                    < PosInResultSet(schema.Columns[j].Name))
            => i < j

\* C25 witness: x was seen before y, the field list names y before x, and the
\* schema holds y before x.
C25_Witness ==
    /\ DerivedWithResultSet
    /\ ResultSet = <<"y", "x">>
    /\ Len(DataRows) >= 1
    /\ DataRows[1].fields # <<>>
    /\ DataRows[1].fields[1].name = "x"
    /\ Len(schema.Columns) = 2
    /\ schema.Columns[1].Name = "y"
    /\ schema.Columns[2].Name = "x"

\* the place of the first occurrence of a field name in the data rows: rows
\* before fields
FirstSeen(name) ==
    LET places == { <<r, k>> \in (DOMAIN DataRows) \X (1..2) :
                        /\ k \in DOMAIN DataRows[r].fields
                        /\ DataRows[r].fields[k].name = name }
        first  == CHOOSE p \in places :
                      \A q \in places : p[1] < q[1] \/ (p[1] = q[1] /\ p[2] <= q[2])
    IN  10 * first[1] + first[2]

\* C26: with a result_set field list, every column whose name does not occur
\* in the list has Index -1 and stands behind every column whose name does,
\* and such columns stand in first-seen order among themselves.
C26_UnlistedColumnsLast ==
    DerivedWithResultSet =>
        \A i \in DOMAIN schema.Columns :
            ~InResultSet(schema.Columns[i].Name) =>
                /\ schema.Columns[i].Index = -1
                /\ \A j \in DOMAIN schema.Columns :
                       InResultSet(schema.Columns[j].Name) => j < i
                /\ \A j \in DOMAIN schema.Columns :
                       (/\ ~InResultSet(schema.Columns[j].Name)
                        /\ FirstSeen(schema.Columns[j].Name)
                               < FirstSeen(schema.Columns[i].Name))
                       => j < i

\* every column of schema sc1 is a column of sc2 with each of the flags
\* Nullable, Floating and Signed that it has in sc1
FlagsKept(sc1, sc2) ==
    \A i \in DOMAIN sc1.Columns :
        \E j \in DOMAIN sc2.Columns :
            /\ sc2.Columns[j].Name = sc1.Columns[i].Name
            /\ sc1.Columns[i].Nullable => sc2.Columns[j].Nullable
            /\ sc1.Columns[i].Floating => sc2.Columns[j].Floating
            /\ sc1.Columns[i].Signed => sc2.Columns[j].Signed

\* the tags of the values of field name in the rows analyzeRow has been
\* called for
ObservedTags(name) ==
    UNION { { DataRows[r].fields[k].typ :
                k \in { j \in DOMAIN DataRows[r].fields :
                            DataRows[r].fields[j].name = name } } :
            r \in 1..schema.RowCount }

\* Floating and Signed of every column say what has been observed
FlagsExact ==
    \A i \in DOMAIN schema.Columns :
        /\ schema.Columns[i].Floating <=> "float" \in ObservedTags(schema.Columns[i].Name)
        /\ schema.Columns[i].Signed <=>
               ObservedTags(schema.Columns[i].Name) \cap {"int", "float"} # {}

\* in the row that the first pass is about to analyze, no field occurrence
\* turns a flag off that the occurrences before it left on
OccurrencesKeepFlags ==
    (pc = "pass1" /\ pos < Len(buf) /\ iterateRowsStep(buf[pos + 1], status).act = "row") =>
        LET fields == buf[pos + 1].fields
            start  == [schema EXCEPT !.RowCount = @ + 1]
        IN  \A k \in 0..(Len(fields) - 1) :
                LET a == analyzeRowFrom(SubSeq(fields, 1, k), 0, start, lookup)
                    b == analyzeField(fields[k + 1], k, a.schema, a.lookup)
                IN  FlagsKept(a.schema, b.schema)

\* C27: during the first pass a flag Nullable, Floating or Signed that is on
\* stays on after every later field occurrence and row; Floating is on
\* exactly when a floating-point value of the column has been observed, and
\* Signed exactly when a signed integer or a floating-point value has.
C27_FlagsMonotone ==
    /\ [](FlagsExact /\ OccurrencesKeepFlags)
    /\ [][FlagsKept(schema, schema')]_vars

\* C27 witness: x was 1.5, then null, then 1, and after the third row its
\* column is still Floating, Signed and Nullable.
C27_Witness ==
    /\ pc = "pass1"
    /\ schema.RowCount = 3
    /\ DataRows[1].fields = <<Field("x", Val("float", 15, ""))>>
    /\ DataRows[2].fields = <<Field("x", Val("null", 0, ""))>>
    /\ DataRows[3].fields = <<Field("x", Val("uint", 1, ""))>>
    /\ Column("x").Floating
    /\ Column("x").Signed
    /\ Column("x").Nullable

\* C28: frameFromSnellerResult returns a frame only if the second pass ended
\* without error: an error of the reader, of iterateRows or of a column's
\* decode function during the second pass is the error returned, and no
\* frame is.
C28_SecondPassErrorsReturned ==
    (pc = "done" /\ passErr # NoErr) =>
        /\ ~result.frame.set
        /\ result.err = passErr

----------------------------------------------------------------------------
(* Claims on the macro engine and the container stack *)

\* the places of the $__time macros in a SQL text
TimeMacros(sql) ==
    { k \in DOMAIN sql : sql[k].kind = "func" /\ sql[k].name = "time" }

\* the argument of the first $__time macro of a SQL text, empty if none
FirstTimeArg(sql) ==
    IF TimeMacros(sql) = {}
    THEN ""
    ELSE sql[CHOOSE k \in TimeMacros(sql) : \A j \in TimeMacros(sql) : k <= j].arg

\* C29: Interpolate replaces every $__time(field) by the bare field name;
\* afterwards the time candidate of a query is the argument of the first
\* $__time of its own SQL text, and empty when the text has none, whatever
\* the other query's text holds.
C29_TimeCandidate ==
    \A ref \in DOMAIN macros :
        /\ macros[ref].at = "new" => macros[ref].timeCandidate = ""
        /\ macros[ref].at = "done" =>
               /\ macros[ref].timeCandidate = FirstTimeArg(macros[ref].sql)
               /\ Len(macros[ref].out) = Len(macros[ref].sql)
               /\ \A k \in TimeMacros(macros[ref].sql) :
                      macros[ref].out[k] = SqlText(macros[ref].sql[k].arg)
               /\ TimeMacros(macros[ref].out) = {}

\* C29 witness: query A has marked x with the first of two $__time macros,
\* and query B, interpolated after it without any, has no candidate.
C29_Witness ==
    /\ DOMAIN macros = RefIDs
    /\ macros["A"].at = "done"
    /\ macros["A"].sql = <<MacroFunc("time", "x"), MacroFunc("time", "y")>>
    /\ macros["A"].timeCandidate = "x"
    /\ macros["B"].at = "done"
    /\ macros["B"].sql = <<SqlText("SELECT"), MacroFunc("timeFilter", "x")>>
    /\ macros["B"].timeCandidate = ""

\* a context whose pending value has been consumed by IonReader.discard: the
\* source is behind the value and the size is zero
Consumed(c) == [c EXCEPT !.pos = IF c.top /\ c.size > Avail(c) THEN c.lim ELSE c.pos + c.size,
                         !.size = 0]

\* C30: after any calls of Next, StepIn, StepOut and the reads, the container
\* stack is as long as the count of StepIn calls that returned nil less the
\* count of StepOut calls that returned nil, which is never negative; every
\* context on the stack is the one that was current at the StepIn that put it
\* there, with its container consumed, and a StepOut that returns nil makes
\* the context of the matching StepIn current again.
C30_StackDepth ==
    /\ steps.ins >= steps.outs
    /\ Len(stack) = steps.ins - steps.outs
    /\ Len(steps.entered) = Len(stack)
    /\ \A i \in 1..Len(stack) : stack[i] = Consumed(steps.entered[i])
    /\ (last.op = "StepOut" /\ last.err = NoErr) =>
           /\ ctx = Consumed(steps.left)
           /\ ctx = last.stackBefore[Len(last.stackBefore)]
           /\ stack = SubSeq(last.stackBefore, 1, Len(last.stackBefore) - 1)

\* C30 witness: the list and the struct inside it were entered, Next moved to
\* the field x of the struct, and StepOut has put the reader back in the
\* list, one container deep, on the context the struct was entered from.
C30_Witness ==
    /\ bytes = NestedStream
    /\ last.op = "StepOut"
    /\ last.err = NoErr
    /\ steps.ins = 2
    /\ steps.outs = 1
    /\ Len(stack) = 1
    /\ steps.left.typ = "struct"
    /\ last.before.typ = "bool"
    /\ last.before.label = "x"

----------------------------------------------------------------------------
(* Claims on the row iterator, the value arrays and the schema *)

\* the offsets of the whole unannotated structs among the top-level values
\* of the input from offset p on: version markers, symbol tables, annotated
\* values and other values are passed over, a value cut off ends the walk
RECURSIVE Records(_)
Records(p) ==
    IF p >= Len(bytes)
    THEN <<>>
    ELSE LET tok == bytes[p + 1]
         IN  IF tok = Bvm THEN Records(p + 1)
             ELSE IF tok.size = 0 \/ p + tok.size > Len(bytes) THEN <<>>
             ELSE IF tok.t = "struct" THEN <<p>> \o Records(p + tok.size)
             ELSE Records(p + tok.size)

\* the records iterateRows has come to: those the reader is behind, and the
\* one it is at when iterateRows has returned at top level before any
\* final_status
RECURSIVE Upto(_, _, _)
Upto(offsets, behind, at) ==
    IF offsets = <<>> THEN <<>>
    ELSE IF Head(offsets) < behind \/ Head(offsets) = at
         THEN <<Head(offsets)>> \o Upto(Tail(offsets), behind, at)
         ELSE <<>>

SeenRecords ==
    Upto(Records(0), TopOffset,
         IF iter.pc = "returned" /\ ~iter.status /\ stack = <<>> THEN ctx.pos ELSE -1)

\* C31: iterateRows calls readRowFn exactly once for each unannotated
\* top-level record it comes to, in stream order and with the indexes 0, 1,
\* 2, ...; status envelopes and symbol tables make no call and take no index,
\* the reader is one container deep during a call and at top level between
\* the rows.
C31_CallbackOncePerRow ==
    /\ [i \in 1..Len(iter.calls) |-> iter.calls[i].at] = SeenRecords
    /\ \A i \in 1..Len(iter.calls) : iter.calls[i].index = i - 1
    /\ iter.pc \in {"next", "unmarshal", "stepin"} =>
           /\ stack = <<>>
           /\ iter.index = Len(iter.calls)
    /\ iter.pc \in {"callback", "stepout"} =>
           /\ Len(stack) = 1
           /\ iter.index = Len(iter.calls) - 1

\* the struct at offset o holds no field
EmptyRecordAt(o) ==
    /\ o + 1 \in DOMAIN bytes
    /\ bytes[o + 1].t = "struct"
    /\ bytes[o + 1].size = 1

\* C34: a top-level record without fields is a data row like any other:
\* StepIn on it returns nil, readRowFn is called once with the next index and
\* one container deep, Next finds no field in it and no error, and StepOut
\* takes iterateRows on to the next top-level value with the index raised.
C34_EmptyRowIsARow ==
    /\ (last.op = "StepIn" /\ last.stackBefore = <<>> /\ EmptyRecordAt(last.before.pos)) =>
           /\ last.err = NoErr
           /\ iter.pc = "callback"
           /\ Len(stack) = 1
           /\ iter.calls # <<>>
           /\ iter.calls[Len(iter.calls)] = [index |-> iter.index, at |-> last.before.pos]
    /\ (iter.pc = "callback" /\ last.op = "Next" /\ iter.calls # <<>>
            /\ EmptyRecordAt(iter.calls[Len(iter.calls)].at)) =>
           /\ ~last.ret
           /\ last.err = NoErr
    /\ (iter.pc = "returned" /\ stack = <<>> /\ EmptyRecordAt(ctx.pos)) =>
           ctx.size = 0

\* the value arrays stand: one per column of the schema, in the order of the
\* columns, each as long as RowCount
ArraysAllocated ==
    /\ Len(fieldVals) = Len(schema.Columns)
    /\ \A j \in DOMAIN fieldVals :
           /\ fieldVals[j].Name = schema.Columns[j].Name
           /\ Len(fieldVals[j].Values) = schema.RowCount

\* the fields of the row the second pass is at are read one after the other:
\* reading field f of row index changes no element but the one at index of
\* the column named f
FieldWritesOwnCell ==
    (pc = "pass2" /\ pos < Len(buf) /\ iterateRowsStep(buf[pos + 1], status).act = "row") =>
        LET fields == buf[pos + 1].fields
        IN  /\ index < schema.RowCount
            /\ \A k \in 0..(Len(fields) - 1) :
                   LET a == readRowValues(SubSeq(fields, 1, k), index, fieldVals)
                       b == readField(fields[k + 1], index, a.fvs, 1)
                   IN  a.err = NoErr =>
                           /\ Len(b.fvs) = Len(a.fvs)
                           /\ \A j \in DOMAIN a.fvs :
                                  /\ DOMAIN b.fvs[j].Values = DOMAIN a.fvs[j].Values
                                  /\ \A i \in DOMAIN a.fvs[j].Values :
                                         b.fvs[j].Values[i] # a.fvs[j].Values[i] =>
                                             /\ i = index + 1
                                             /\ a.fvs[j].Name = fields[k + 1].name

\* the data rows among the first n top-level values of the buffer
RowsBefore(n) == { i \in 1..n : buf[i].annot = "" }

\* the k-th data row of the buffer
RECURSIVE NthRow(_, _)
NthRow(k, from) ==
    IF buf[from].annot = ""
    THEN IF k = 1 THEN buf[from] ELSE NthRow(k - 1, from + 1)
    ELSE NthRow(k, from + 1)

\* C32: no value array exists before the first pass has completed; from the
\* allocation on there is one array per column, of length RowCount; in the
\* second pass reading field f of row i changes only element i of the column
\* named f, i is below RowCount, and an element that is not the zero value
\* belongs to a row already read that holds the field of its column.
C32_ArraysAndCells ==
    /\ pc \in {"pass1", "derived", "alloc"} => fieldVals = <<>>
    /\ pc \in {"pass2", "assemble"} => ArraysAllocated
    /\ (pc = "done" /\ result.frame.set) => ArraysAllocated
    /\ FieldWritesOwnCell
    /\ pc = "pass2" =>
           /\ index = Cardinality(RowsBefore(pos))
           /\ \A j \in DOMAIN fieldVals :
                  \A i \in DOMAIN fieldVals[j].Values :
                      fieldVals[j].Values[i] # ZeroValue(fieldVals[j].ReadFn) =>
                          /\ i <= index
                          /\ \E f \in DOMAIN NthRow(i, 1).fields :
                                 NthRow(i, 1).fields[f].name = fieldVals[j].Name

\* C32 witness: the second pass has read the rows {x:1, y:2} and {y:2} and
\* is at a third row; the array of x holds 1 at index 0 and the zero value at
\* index 1, the array of y holds 2 at both.
C32_Witness ==
    /\ pc = "pass2"
    /\ index = 2
    /\ schema.RowCount = 3
    /\ Len(fieldVals) = 2
    /\ fieldVals[1].Name = "x"
    /\ fieldVals[1].Values[1].num = 1
    /\ fieldVals[1].Values[2] = ZeroValue(fieldVals[1].ReadFn)
    /\ fieldVals[2].Values[1].num = 2
    /\ fieldVals[2].Values[2].num = 2

\* field name is a signed integer in one row and an unsigned integer in
\* another, and an integer or a null wherever it occurs
MixedIntegerField(name) ==
    /\ \E r \in DOMAIN DataRows :
           Present(name, DataRows[r]) /\ CellOf(name, DataRows[r]).typ = "int"
    /\ \E r \in DOMAIN DataRows :
           Present(name, DataRows[r]) /\ CellOf(name, DataRows[r]).typ = "uint"
    /\ IntegerField(name)

\* C33: a column whose values are signed integers in some rows and unsigned
\* integers in others, and no floating-point value, comes back as an array of
\* signed integers that holds the integer of every row: the decode returns a
\* frame, and no row's value is rejected or left at the zero value.
C33_MixedIntegersSigned ==
    \A name \in Names :
        (pc = "done" /\ PlainStream /\ name # timeField /\ MixedIntegerField(name)) =>
            /\ result.err = NoErr
            /\ result.frame.set
            /\ \E i \in DOMAIN result.frame.Fields :
                   /\ result.frame.Fields[i].Name = name
                   /\ \A r \in DOMAIN DataRows :
                          (Present(name, DataRows[r])
                             /\ IsInteger(CellOf(name, DataRows[r])))
                          => result.frame.Fields[i].Values[r] =
                                 Out("int", CellOf(name, DataRows[r]).num, "")

\* the column types of the values that are not null among the occurrences
\* of field name in the rows analyzeRow has been called for
ObservedNonNull(name) ==
    { snellerType(t) : t \in ObservedTags(name) \ {"null"} }

\* the type of every column is what the observations so far resolve to: null
\* while only nulls were seen, the one type seen, unknown after two
TypeResolved ==
    \A i \in DOMAIN schema.Columns :
        LET seen == ObservedNonNull(schema.Columns[i].Name)
        IN  schema.Columns[i].Typ =
                IF seen = {} THEN "snellerTypeNull"
                ELSE IF Cardinality(seen) = 1 THEN CHOOSE t \in seen : TRUE
                ELSE "snellerTypeUnknown"

\* the transitions of adjustType from a column of any type on any observed
\* type
TypeTransitions ==
    \A t \in snellerColumnTypes, st \in snellerColumnTypes, n \in BOOLEAN :
        LET col == [newColumn(0, "x", "null", 1) EXCEPT !.Typ = t, !.Nullable = n]
            to  == adjustType(col, st)
        IN  /\ t = "snellerTypeUnknown" => to.Typ = "snellerTypeUnknown"
            /\ st = "snellerTypeNull" =>
                   /\ to.Typ = t
                   /\ to.Nullable = (n \/ t # "snellerTypeNull")
            /\ (t = "snellerTypeNull" /\ st # "snellerTypeNull") => to.Typ = st
            /\ (t \notin {"snellerTypeNull", st} /\ st # "snellerTypeNull") =>
                   to.Typ = "snellerTypeUnknown"
            /\ to = [col EXCEPT !.Typ = to.Typ, !.Nullable = to.Nullable]

\* field by field in the row the first pass is at: a column that is unknown
\* stays unknown, a null changes no type, and no other column changes type
OccurrencesKeepConflict ==
    (pc = "pass1" /\ pos < Len(buf) /\ iterateRowsStep(buf[pos + 1], status).act = "row") =>
        LET fields == buf[pos + 1].fields
            start  == [schema EXCEPT !.RowCount = @ + 1]
        IN  \A k \in 0..(Len(fields) - 1) :
                LET a == analyzeRowFrom(SubSeq(fields, 1, k), 0, start, lookup)
                    b == analyzeField(fields[k + 1], k, a.schema, a.lookup)
                IN  \A i \in DOMAIN a.schema.Columns :
                        LET old == a.schema.Columns[i]
                            new == b.schema.Columns[i]
                        IN  /\ old.Typ = "snellerTypeUnknown" =>
                                   new.Typ = "snellerTypeUnknown"
                            /\ (old.Typ # new.Typ) =>
                                   /\ old.Name = fields[k + 1].name
                                   /\ fields[k + 1].typ # "null"
                            /\ (old.Typ = "snellerTypeNull"
                                  /\ old.Name = fields[k + 1].name) =>
                                   new.Typ = snellerType(fields[k + 1].typ)

\* C35: the type of a column is a state machine over the observed types: a
\* column of type null takes the first type observed that is not null, a
\* second different type makes it unknown, unknown stays through every later
\* observation, and an observed null changes no type and sets Nullable.
C35_ConflictAbsorbing ==
    /\ TypeTransitions
    /\ TypeResolved
    /\ OccurrencesKeepConflict

\* C35 witness: x was 1, then text, then 2: the column became unknown at the
\* second row and is unknown after the third.
C35_Witness ==
    /\ pc = "pass1"
    /\ schema.RowCount = 3
    /\ Len(DataRows) = 3
    /\ \A r \in 1..3 : Len(DataRows[r].fields) = 1 /\ DataRows[r].fields[1].name = "x"
    /\ DataRows[1].fields[1].typ = "uint"
    /\ DataRows[2].fields[1].typ = "string"
    /\ DataRows[3].fields[1].typ = "uint"
    /\ schema.Columns[1].Typ = "snellerTypeUnknown"

\* the names of the columns cols
ColumnNames(cols) == { cols[i].Name : i \in DOMAIN cols }

\* no two columns of cols have the same name
UniqueNames(cols) ==
    \A i, j \in DOMAIN cols : cols[i].Name = cols[j].Name => i = j

\* the map lk holds the descriptors of cols and no other: every name of a
\* column is a key, and the key leads to the column of that name
SameDescriptors(cols, lk) ==
    /\ DOMAIN lk = ColumnNames(cols)
    /\ \A n \in DOMAIN lk : lk[n] \in DOMAIN cols /\ cols[lk[n]].Name = n

\* the field names in the rows analyzeRow has been called for
SeenNames ==
    UNION { { DataRows[r].fields[k].name : k \in DOMAIN DataRows[r].fields } :
            r \in 1..schema.RowCount }

\* field by field in the row the first pass is at: the names stay unique,
\* the map and the columns hold the same descriptors, and every descriptor
\* stays where it is
OccurrencesKeepColumns ==
    (pc = "pass1" /\ pos < Len(buf) /\ iterateRowsStep(buf[pos + 1], status).act = "row") =>
        LET fields == buf[pos + 1].fields
            start  == [schema EXCEPT !.RowCount = @ + 1]
        IN  \A k \in 0..(Len(fields) - 1) :
                LET a == analyzeRowFrom(SubSeq(fields, 1, k), 0, start, lookup)
                    b == analyzeField(fields[k + 1], k, a.schema, a.lookup)
                IN  /\ UniqueNames(b.schema.Columns)
                    /\ SameDescriptors(b.schema.Columns, b.lookup)
                    /\ fields[k + 1].name \in ColumnNames(b.schema.Columns)
                    /\ Len(b.schema.Columns) >= Len(a.schema.Columns)
                    /\ \A i \in DOMAIN a.schema.Columns :
                           b.schema.Columns[i].Name = a.schema.Columns[i].Name

\* C36: during the first pass and after it the schema holds one descriptor
\* for each field name seen so far and no two of the same name; the lookup
\* map holds the descriptors of schema.Columns and no other; a descriptor,
\* once appended, is never removed.
C36_OneColumnPerName ==
    /\ UniqueNames(schema.Columns)
    /\ ColumnNames(schema.Columns) = SeenNames
    /\ Len(schema.Columns) = Cardinality(SeenNames)
    /\ DOMAIN lookup = ColumnNames(schema.Columns)
    /\ pc = "pass1" => SameDescriptors(schema.Columns, lookup)
    /\ OccurrencesKeepColumns

\* C36 witness: the rows {x, y}, {x} and {y, x} have been analyzed; the
\* schema holds the two columns x and y.
C36_Witness ==
    /\ pc = "pass1"
    /\ schema.RowCount = 3
    /\ Len(DataRows[1].fields) = 2
    /\ Len(DataRows[2].fields) = 1
    /\ Len(DataRows[3].fields) = 2
    /\ DataRows[3].fields[1].name = "y"
    /\ Len(schema.Columns) = 2
    /\ schema.Columns[1].Name = "x"
    /\ schema.Columns[2].Name = "y"

\* the number of the rows analyzed that hold a field of the given name
RowsWith(name) ==
    Cardinality({ r \in 1..schema.RowCount : Present(name, DataRows[r]) })

\* C37: when the first pass has completed, Count of every column is the
\* number of data rows that hold its field, whether a row holds the name
\* once or more often, and so lies between 1 and RowCount.
C37_CountIsRowsWithField ==
    schema.FinalStatus.set =>
        \A i \in DOMAIN schema.Columns :
            /\ schema.Columns[i].Count = RowsWith(schema.Columns[i].Name)
            /\ 1 <= schema.Columns[i].Count
            /\ schema.Columns[i].Count <= schema.RowCount

\* deriveSchema has returned the schema of a stream that ends with a
\* final_status envelope that carries no field list
DerivedWithoutResultSet ==
    /\ Derived
    /\ EndsWithFinalStatus
    /\ ~buf[Len(buf)].rs_present

\* C38: without a result_set field list, a column stands before another in
\* schema.Columns exactly when its field name was first met earlier in the
\* stream: in an earlier row, or earlier in the same row.
C38_FirstSeenOrder ==
    DerivedWithoutResultSet =>
        \A i, j \in DOMAIN schema.Columns :
            i < j <=> FirstSeen(schema.Columns[i].Name)
                          < FirstSeen(schema.Columns[j].Name)

\* C38 witness: y is met in the first row and x only in the second, no field
\* list is given, and the schema holds y before x.
C38_Witness ==
    /\ DerivedWithoutResultSet
    /\ Len(DataRows) = 2
    /\ Len(DataRows[1].fields) = 1
    /\ DataRows[1].fields[1].name = "y"
    /\ \E k \in DOMAIN DataRows[2].fields : DataRows[2].fields[k].name = "x"
    /\ Len(schema.Columns) = 2
    /\ schema.Columns[1].Name = "y"
    /\ schema.Columns[2].Name = "x"

\* the last call was a typed read that failed its type check
FailedTypeCheck ==
    /\ last.op = "Read"
    /\ last.err = TypeMismatch
    /\ last.before.typ # ReadsType(last.fn)

\* the offset of the descriptor the Next that follows moves to: behind the
\* pending value, the label of a field and the annotation wrappers
NextDescriptor(c, stk) ==
    HeaderAt(Consumed(c).pos + (IF inStruct(stk) THEN 2 ELSE 1))

\* C39: a typed read that fails its type check leaves the context, the
\* window and the stack of the reader as they were; when the reader is on a
\* value that its source holds whole, a read of the type of the value that
\* follows returns the value without error, and a Next that follows moves to
\* the value that stands next behind the one the read failed on.
C39_FailedReadConsumesNothing ==
    FailedTypeCheck =>
        /\ ctx = last.before
        /\ rbuf = last.rbufBefore
        /\ stack = last.stackBefore
        /\ (OnValue(last.before) /\ ~Truncated(last.before)) =>
               /\ \A fn \in TypedReads :
                      ReadsType(fn) = ctx.typ =>
                          /\ TypedReadOf(fn, ctx, rbuf).err = NoErr
                          /\ TypedReadOf(fn, ctx, rbuf).val
                                 = decodeTyped(fn, Val(ctx.typ, bytes[ctx.pos + 1].num,
                                                       bytes[ctx.pos + 1].str)).val
                          /\ TypedReadOf(fn, ctx, rbuf).ctx = Consumed(last.before)
               /\ bytes \in WholeStreams =>
                      LET n == NextOf(ctx, stack, symbols)
                      IN  IF Consumed(last.before).pos = last.before.lim
                          THEN ~n.ret
                          ELSE /\ n.ret
                               /\ n.ctx.pos + 1
                                      = NextDescriptor(last.before, last.stackBefore)
                               /\ n.ctx.typ = bytes[n.ctx.pos + 1].t

\* C39 witness: ReadBool has failed its type check on the pending uint of the
\* field x of a row, another field stands behind it, and the reader is as it
\* was before the call.
C39_Witness ==
    /\ FailedTypeCheck
    /\ last.fn = "ReadBool"
    /\ ~last.nullable
    /\ last.before.typ = "uint"
    /\ last.before.label = "x"
    /\ OnValue(last.before)
    /\ inStruct(stack)
    /\ Consumed(last.before).pos < last.before.lim
    /\ bytes \in WholeStreams
    /\ ctx = last.before

----------------------------------------------------------------------------
(* Claim on the field conversion in goroutines *)

\* a goroutine that is at its send finds room in the channel
SendNeverBlocks ==
    \A k \in DOMAIN conv.gpc :
        conv.gpc[k] = "send" => InChannel(conv) < chanCap(conv.Columns)

\* the channel is closed only when every goroutine has sent and is done
ClosedAfterAllSent ==
    conv.closed =>
        /\ \A k \in DOMAIN conv.Columns : conv.gpc[k] = "exit"
        /\ Len(conv.fields) = Len(conv.Columns)

\* the slice returned holds the field of every column at the column's place
FieldPerColumn ==
    conv.pc = "returned" =>
        /\ Len(conv.result) = Len(conv.Columns)
        /\ \A k \in DOMAIN conv.Columns : conv.result[k] = DataField(conv.Columns[k])

\* C40: in whatever order the goroutines of grafanaFields run and complete,
\* no send finds the channel full, the channel is closed only after every
\* goroutine has sent, nothing panics, the slice returned holds exactly the
\* field of column k at place k, and grafanaFields returns.
C40_ParallelFields ==
    /\ [](SendNeverBlocks /\ ClosedAfterAllSent /\ ~conv.panic /\ FieldPerColumn)
    /\ <>(conv.pc = "returned")

\* C40 witness: three goroutines ran two at a time, the field of the second
\* column was sent first and that of the first column last, and the slice
\* returned is in column order.
C40_Witness ==
    /\ conv.pc = "returned"
    /\ Len(conv.Columns) = 3
    /\ conv.limit = 2
    /\ conv.fields[1].Index = 1
    /\ conv.fields[3].Index = 0
    /\ conv.result = <<DataField("a"), DataField("b"), DataField("c")>>

====
